---- MODULE Spec2Model ----
(***************************************************************************)
(* Verification model of proc (yazeed/proc): target parsing and target     *)
(* resolution (src/src/core/target.rs, src/src/core/port.rs,               *)
(* src/src/core/process.rs), the stuck detector and the recovery engine    *)
(* (src/src/commands/unstick.rs), kill and stop (src/src/commands/kill.rs, *)
(* src/src/commands/stop.rs) and the exit code (src/src/error.rs,          *)
(* src/src/main.rs).                                                       *)
(*                                                                         *)
(* Strings are sequences of one-character strings.  Unsigned integers that *)
(* the program parses are kept as two 16-bit limbs [hi, lo] (value =       *)
(* hi * 65536 + lo) so that the u16 and u32 overflow checks of             *)
(* str::parse are computed at their real widths.                           *)
(***************************************************************************)
EXTENDS Integers, Sequences, FiniteSets, TLC

VARIABLES
    input,      \* the raw command-line argument handed to the parser
    ppc,        \* position of the parsing run: "start" | "parsed" | "split"
    target,     \* result of parse_target(input)
    pieces,     \* result of parse_targets(input)
    procTable,  \* the OS process table: the set of live Process records
    socks,      \* the OS listening-socket table, in enumeration order
    enumerable, \* whether the socket-listing command (lsof, ss) can be run
    signals,    \* every signal sent so far, as <<signal, pid>>
    op,         \* the resolver entry point that is running
    rpc,        \* its position: "idle" | "resolve" | "port_pid" | "done"
    targets,    \* the target strings of the call
    idx,        \* resolve_targets: index of the target being resolved
    portInfo,   \* resolve_port: the PortInfo found, owner not yet looked up
    result,     \* what the last resolve_target call returned
    all_processes,  \* resolve_targets: accumulated processes
    seen_pids,      \* resolve_targets: pids already accumulated
    not_found,      \* resolve_targets: targets whose resolution failed
    ret,        \* return value of resolve_target_single / find_ports_for_pid
    log,        \* history: the result of every resolve_target call of the run
    usage,      \* the OS accounting: per pid, the CPU share and run time a
                \* refresh would measure now
    self,       \* the command being executed: its name and its flags
    cpc,        \* position of the command: "idle" | ... | "done"
    sys,        \* find_stuck: the System's processes as of its last refresh
    stuck,      \* what the discovery returned: the processes to work on
    unix,       \* whether the build is the cfg(unix) one
    nth,        \* execute: index of the process the loop is at
    apc,        \* attempt_unstick: position of the running attempt
    script,     \* the observations and signals of the running attempt
    outcomes,   \* execute: the outcomes pushed so far
    report,     \* the output record the command printed
    status,     \* what execute returned
    processes,  \* kill, stop: the processes the target resolved to
    elapsed,    \* stop: the polls wait_for_exit has slept through
    exit_code,  \* the exit code of the process, -1 while it runs
    confirmed   \* the answer to the confirmation prompt, "unasked" without one

parseVars == <<input, ppc, target, pieces>>
osVars == <<procTable, socks, enumerable, signals>>
callVars == <<op, rpc, targets, idx, portInfo, result, all_processes, seen_pids,
              not_found, ret, log>>
cmdVars == <<usage, self, cpc, sys, stuck, unix, nth, apc, script, outcomes, report,
             status, processes, elapsed, exit_code, confirmed>>
attemptVars ==
    <<unix, nth, apc, script, outcomes, report, status, processes, elapsed, exit_code,
      confirmed>>
vars == <<parseVars, osVars, callVars, cmdVars>>

-----------------------------------------------------------------------------
(* Bounds *)

\* longest string enumerated exhaustively over Alphabet
MaxLen == 3

\* longest target list handed to resolve_targets
MaxTargets == 2

\* most listening sockets in the socket table
MaxSocks == 2

-----------------------------------------------------------------------------
(* Characters and strings *)

Digits == <<"0", "1", "2", "3", "4", "5", "6", "7", "8", "9">>

IsDigit(c) == \E i \in 1..10 : Digits[i] = c

\* char::to_digit(10) for a decimal digit
DigitVal(c) == (CHOOSE i \in 1..10 : Digits[i] = c) - 1

\* char::is_whitespace, restricted to the characters the model uses
IsWhitespace(c) == c \in {" ", "\t"}

RECURSIVE TrimStart(_)
\* str::trim_start
TrimStart(s) ==
    IF s # <<>> /\ IsWhitespace(Head(s)) THEN TrimStart(Tail(s)) ELSE s

RECURSIVE TrimEnd(_)
\* str::trim_end
TrimEnd(s) ==
    IF s # <<>> /\ IsWhitespace(s[Len(s)])
    THEN TrimEnd(SubSeq(s, 1, Len(s) - 1))
    ELSE s

\* str::trim
Trim(s) == TrimEnd(TrimStart(s))

RECURSIVE TrimStartMatches(_, _)
\* str::trim_start_matches(c): removes EVERY leading occurrence of c
TrimStartMatches(s, c) ==
    IF s # <<>> /\ Head(s) = c THEN TrimStartMatches(Tail(s), c) ELSE s

\* str::starts_with(c)
StartsWith(s, c) == s # <<>> /\ Head(s) = c

-----------------------------------------------------------------------------
(* Integer parsing: <unsigned>::from_str, radix 10 *)

\* one limb of the two-limb representation
LimbBase == 65536

\* largest high limb of a u16 (the value must fit the low limb)
U16MaxHi == 0

\* largest high limb of a u32
U32MaxHi == 65535

\* the parse error value (any ParseIntError)
ParseErr == [hi |-> -1, lo |-> -1]

Wide(n) == [hi |-> n \div LimbBase, lo |-> n % LimbBase]

\* checked_mul(10) followed by checked_add(d) at the width given by maxHi
MulAdd(acc, d, maxHi) ==
    LET lo10 == acc.lo * 10 + d
        hi10 == acc.hi * 10 + (lo10 \div LimbBase)
    IN  IF hi10 > maxHi THEN ParseErr ELSE [hi |-> hi10, lo |-> lo10 % LimbBase]

RECURSIVE ParseDigits(_, _, _)
\* the digit loop of from_str_radix: every character must be a digit and
\* the accumulator must not overflow
ParseDigits(s, acc, maxHi) ==
    IF s = <<>> THEN acc
    ELSE IF ~IsDigit(Head(s)) THEN ParseErr
    ELSE LET next == MulAdd(acc, DigitVal(Head(s)), maxHi)
         IN  IF next = ParseErr THEN ParseErr
             ELSE ParseDigits(Tail(s), next, maxHi)

\* str::parse::<uN>(): empty is an error, a lone sign is an error, one
\* leading '+' is accepted, '-' is not a digit of an unsigned type
ParseUnsigned(s, maxHi) ==
    IF s = <<>> THEN ParseErr
    ELSE IF Len(s) = 1 /\ Head(s) \in {"+", "-"} THEN ParseErr
    ELSE IF Head(s) = "+" THEN ParseDigits(Tail(s), Wide(0), maxHi)
    ELSE ParseDigits(s, Wide(0), maxHi)

-----------------------------------------------------------------------------
(* core::port::parse_port and core::target::parse_target *)

\* parse_port without the removal of the ':' prefix
parse_port_keeps_colon(s) == ParseUnsigned(Trim(s), U16MaxHi)

parse_port(s) == ParseUnsigned(TrimStartMatches(Trim(s), ":"), U16MaxHi)

Port(n) == [tag |-> "Port", num |-> n, name |-> <<>>]
Pid(n) == [tag |-> "Pid", num |-> n, name |-> <<>>]
Name(s) == [tag |-> "Name", num |-> Wide(0), name |-> s]
NoTarget == [tag |-> "None", num |-> Wide(0), name |-> <<>>]

\* parse_target trying the port reading on every input, prefixed or not
parse_target_port_first(s) ==
    LET t == Trim(s)
    IN  IF parse_port(t) # ParseErr
        THEN Port(parse_port(t))
        ELSE IF ParseUnsigned(t, U32MaxHi) # ParseErr
        THEN Pid(ParseUnsigned(t, U32MaxHi))
        ELSE Name(t)

\* parse_target that never leaves the ':' branch once it is entered
parse_target_strict(s) ==
    LET t == Trim(s)
    IN  IF StartsWith(t, ":")
        THEN IF parse_port(t) # ParseErr THEN Port(parse_port(t)) ELSE Port(Wide(0))
        ELSE IF ParseUnsigned(t, U32MaxHi) # ParseErr
        THEN Pid(ParseUnsigned(t, U32MaxHi))
        ELSE Name(t)

parse_target(s) ==
    LET t == Trim(s)
    IN  IF StartsWith(t, ":") /\ parse_port(t) # ParseErr
        THEN Port(parse_port(t))
        ELSE IF ParseUnsigned(t, U32MaxHi) # ParseErr
        THEN Pid(ParseUnsigned(t, U32MaxHi))
        ELSE Name(t)

-----------------------------------------------------------------------------
(* core::target::parse_targets *)

RECURSIVE SplitAcc(_, _, _)
\* str::split(sep): the pieces between separators, empty pieces included;
\* the empty string splits into one empty piece
SplitAcc(s, sep, cur) ==
    IF s = <<>> THEN <<cur>>
    ELSE IF Head(s) = sep THEN <<cur>> \o SplitAcc(Tail(s), sep, <<>>)
    ELSE SplitAcc(Tail(s), sep, Append(cur, Head(s)))

Split(s, sep) == SplitAcc(s, sep, <<>>)

RECURSIVE MapTrim(_)
MapTrim(ps) == IF ps = <<>> THEN <<>> ELSE <<Trim(Head(ps))>> \o MapTrim(Tail(ps))

NonEmpty(p) == p # <<>>

\* parse_targets without the filter that drops the empty pieces
parse_targets_keeps_empty(s) == MapTrim(Split(s, ","))

parse_targets(s) == SelectSeq(MapTrim(Split(s, ",")), NonEmpty)

-----------------------------------------------------------------------------
(* Inputs of the parsing runs *)

Alphabet == {":", "+", "-", "0", "7", "a", " ", ","}

ShortStrings == UNION {[1..k -> Alphabet] : k \in 0..MaxLen}

Str3000 == <<"3", "0", "0", "0">>
Str65535 == <<"6", "5", "5", "3", "5">>
Str65536 == <<"6", "5", "5", "3", "6">>
Str70000 == <<"7", "0", "0", "0", "0">>
StrU32Max == <<"4", "2", "9", "4", "9", "6", "7", "2", "9", "5">>
StrU32Over == <<"4", "2", "9", "4", "9", "6", "7", "2", "9", "6">>
StrU32Big == <<"9", "9", "9", "9", "9", "9", "9", "9", "9", "9">>
StrU32Long == <<"1", "0", "0", "0", "0", "0", "0", "0", "0", "0", "8">>
StrNode == <<"n", "o", "d", "e">>

BoundaryBodies ==
    {Str3000, Str65535, Str65536, Str70000, StrU32Max, StrU32Over,
     StrU32Big, StrU32Long, StrNode}

\* boundary numbers wrapped in the prefixes and suffixes the parser reacts to
BoundaryStrings ==
    {ws1 \o colons \o sign \o zeros \o body \o junk \o ws2 :
        ws1 \in {<<>>, <<" ">>},
        colons \in {<<>>, <<":">>, <<":", ":">>},
        sign \in {<<>>, <<"+">>},
        zeros \in {<<>>, <<"0", "0">>},
        body \in BoundaryBodies,
        junk \in {<<>>, <<"a">>, <<",", ",", " ", "7">>},
        ws2 \in {<<>>, <<" ">>}}

Inputs == ShortStrings \cup BoundaryStrings

\* the target strings handed to the resolver
TargetPool ==
    {<<":">> \o Str3000, Str3000, StrNode, <<":", "8", "0">>, <<"z", "z">>, <<>>}

TargetLists == UNION {[1..k -> TargetPool] : k \in 0..MaxTargets}

-----------------------------------------------------------------------------
(* Results and the state of a resolver that is not running *)

\* Result<Vec<Process>>: Ok(procs) or Err(err); num and text are the
\* payload of the error (pid or port, and the message string)
Ok(ps) == [ok |-> TRUE, procs |-> ps, err |-> "", num |-> 0, text |-> <<>>]
Err(kind, n, t) == [ok |-> FALSE, procs |-> <<>>, err |-> kind, num |-> n, text |-> t]
NoResult == [ok |-> FALSE, procs |-> <<>>, err |-> "none", num |-> 0, text |-> <<>>]
NoPortInfo == [port |-> 0, pid |-> 0]

IdleOs ==
    /\ procTable = {}
    /\ socks = <<>>
    /\ enumerable = TRUE
    /\ signals = <<>>

IdleCall ==
    /\ op = "none"
    /\ rpc = "idle"
    /\ targets = <<>>
    /\ idx = 0
    /\ portInfo = NoPortInfo
    /\ result = NoResult
    /\ all_processes = <<>>
    /\ seen_pids = {}
    /\ not_found = <<>>
    /\ ret = NoResult
    /\ log = <<>>

\* the accounting of a process that was never measured
NoUsage == [cpu_percent |-> 0, run_time |-> 0]

\* no attempt is running and nothing was reported
IdleAttempt ==
    /\ unix = TRUE
    /\ nth = 1
    /\ apc = "entry"
    /\ script = <<>>
    /\ outcomes = <<>>
    /\ report = NoResult
    /\ status = NoResult
    /\ processes = <<>>
    /\ elapsed = 0
    /\ exit_code = -1
    /\ confirmed = "unasked"

\* no command is being executed
IdleCmd ==
    /\ usage = [p \in {} |-> NoUsage]
    /\ self = [cmd |-> "none"]
    /\ cpc = "idle"
    /\ sys = {}
    /\ stuck = NoResult
    /\ IdleAttempt

-----------------------------------------------------------------------------
(* Parsing runs: one argument, parsed by parse_target or by parse_targets *)

InitParse ==
    /\ input \in Inputs
    /\ ppc = "start"
    /\ target = NoTarget
    /\ pieces = <<>>
    /\ IdleOs
    /\ IdleCall
    /\ IdleCmd

\* parse_target applied to the raw argument (stop, tree)
ParseTarget ==
    /\ ppc = "start"
    /\ target' = parse_target(input)
    /\ ppc' = "parsed"
    /\ UNCHANGED <<input, pieces, osVars, callVars, cmdVars>>

\* parse_targets applied to the raw argument (info, on)
ParseTargets ==
    /\ ppc = "start"
    /\ pieces' = parse_targets(input)
    /\ ppc' = "split"
    /\ UNCHANGED <<input, target, osVars, callVars, cmdVars>>

NextParse == ParseTarget \/ ParseTargets

SpecParse == InitParse /\ [][NextParse]_vars

-----------------------------------------------------------------------------
(* The process table and the listening-socket table *)

UpperChars == <<"A", "B", "C", "D", "E", "F", "G", "H", "I", "J", "K", "L", "M",
                "N", "O", "P", "Q", "R", "S", "T", "U", "V", "W", "X", "Y", "Z">>
LowerChars == <<"a", "b", "c", "d", "e", "f", "g", "h", "i", "j", "k", "l", "m",
                "n", "o", "p", "q", "r", "s", "t", "u", "v", "w", "x", "y", "z">>

\* char::to_lowercase on ASCII
ToLowerChar(c) ==
    IF \E k \in 1..26 : UpperChars[k] = c
    THEN LowerChars[CHOOSE k \in 1..26 : UpperChars[k] = c]
    ELSE c

\* str::to_lowercase
ToLower(s) == [k \in 1..Len(s) |-> ToLowerChar(s[k])]

\* str::contains(needle)
Contains(hay, needle) ==
    \E k \in 0..(Len(hay) - Len(needle)) : SubSeq(hay, k + 1, k + Len(needle)) = needle

\* the programs that may be running: pid, executable name, joined command line
ProcNode == [pid |-> 500, name |-> <<"N", "o", "d", "e">>,
             cmd |-> <<"n", "o", "d", "e", " ", "a">>]
ProcShell == [pid |-> 3000, name |-> <<"s", "h">>,
              cmd |-> <<"s", "h", " ", "n", "o", "d", "e">>]
Catalog == {ProcNode, ProcShell}

PidPool == {p.pid : p \in Catalog}

\* the pids find_ports_for_pid is called with: the catalog's and an unused one
PidArgs == PidPool \cup {7}

\* the listening sockets that may be open: port and owning pid
PortInfos ==
    {[port |-> 3000, pid |-> 500], [port |-> 3000, pid |-> 3000],
     [port |-> 80, pid |-> 3000]}

\* the listening-socket tables of the initial states
SockConfigs == UNION {[1..k -> PortInfos] : k \in 0..MaxSocks}

-----------------------------------------------------------------------------
(* Provider queries *)

\* Process::find_by_pid: Some(process) or None, as a list of at most one
find_by_pid(table, pid) ==
    IF \E p \in table : Wide(p.pid) = pid
    THEN <<CHOOSE p \in table : Wide(p.pid) = pid>>
    ELSE <<>>

\* the filter of Process::find_by_name
NameMatches(p, pattern) ==
    \/ Contains(ToLower(p.name), ToLower(pattern))
    \/ Contains(ToLower(p.cmd), ToLower(pattern))

\* every order in which a hash map may enumerate the members of S
Orders(S) ==
    {f \in [1..Cardinality(S) -> S] : \A x \in S : \E k \in 1..Cardinality(S) : f[k] = x}

\* PortInfo::find_by_port on a successful enumeration: the first entry of
\* that port, as a list of at most one
find_by_port(table, port) ==
    LET hits == {k \in 1..Len(table) : Wide(table[k].port) = port}
    IN  IF hits = {} THEN <<>>
        ELSE <<table[CHOOSE k \in hits : \A j \in hits : k <= j]>>

RECURSIVE IntToString(_)
\* <u32 as Display>::fmt for a value below 2^31
IntToString(n) ==
    IF n < 10 THEN <<Digits[n + 1]>>
    ELSE IntToString(n \div 10) \o <<Digits[(n % 10) + 1]>>

\* u32::to_string of a two-limb value: the quotient by ten fits an integer
WideToString(w) ==
    LET q == w.hi * 6553 + ((w.hi * 6 + w.lo) \div 10)
        r == (w.hi * 6 + w.lo) % 10
    IN  IF q = 0 THEN <<Digits[r + 1]>> ELSE IntToString(q) \o <<Digits[r + 1]>>

-----------------------------------------------------------------------------
(* core::target: resolve_target, resolve_target_single, resolve_targets,   *)
(* find_ports_for_pid                                                      *)

\* the inner loop of resolve_targets without the seen_pids test
AccumulateAll(procs, acc, seen) ==
    [acc |-> acc \o procs, seen |-> seen \cup {procs[k].pid : k \in 1..Len(procs)}]

RECURSIVE Accumulate(_, _, _)
\* the inner loop of resolve_targets: push the processes whose pid was not
\* seen before, in order
Accumulate(procs, acc, seen) ==
    IF procs = <<>> THEN [acc |-> acc, seen |-> seen]
    ELSE IF Head(procs).pid \in seen
    THEN Accumulate(Tail(procs), acc, seen)
    ELSE Accumulate(Tail(procs), Append(acc, Head(procs)), seen \cup {Head(procs).pid})

\* what resolve_target_single makes of the result of resolve_target
SingleOf(res, t) ==
    IF ~res.ok THEN res
    ELSE IF res.procs = <<>> THEN Err("ProcessNotFound", 0, t)
    ELSE IF Len(res.procs) > 1 THEN Err("InvalidInput", Len(res.procs), t)
    ELSE Ok(<<res.procs[1]>>)

\* Return as it would be if resolve_targets propagated an error with '?'
ReturnAborting(res) ==
    /\ result' = res
    /\ log' = Append(log, res)
    /\ portInfo' = NoPortInfo
    /\ IF op = "resolve_targets"
       THEN /\ all_processes' = Accumulate(res.procs, all_processes, seen_pids).acc
            /\ seen_pids' = Accumulate(res.procs, all_processes, seen_pids).seen
            /\ not_found' = IF res.ok THEN not_found ELSE Append(not_found, targets[idx])
            /\ idx' = idx + 1
            /\ rpc' = IF idx = Len(targets) \/ ~res.ok THEN "done" ELSE "resolve"
            /\ ret' = IF res.ok THEN ret ELSE res
       ELSE /\ ret' = SingleOf(res, targets[idx])
            /\ rpc' = "done"
            /\ UNCHANGED <<all_processes, seen_pids, not_found, idx>>
    /\ UNCHANGED <<op, targets, parseVars, cmdVars>>

\* resolve_target returns res to the entry point that called it
Return(res) ==
    /\ result' = res
    /\ log' = Append(log, res)
    /\ portInfo' = NoPortInfo
    /\ IF op = "resolve_targets"
       THEN /\ all_processes' = Accumulate(res.procs, all_processes, seen_pids).acc
            /\ seen_pids' = Accumulate(res.procs, all_processes, seen_pids).seen
            /\ not_found' = IF res.ok THEN not_found ELSE Append(not_found, targets[idx])
            /\ idx' = idx + 1
            /\ rpc' = IF idx = Len(targets) THEN "done" ELSE "resolve"
            /\ ret' = ret
       ELSE /\ ret' = SingleOf(res, targets[idx])
            /\ rpc' = "done"
            /\ UNCHANGED <<all_processes, seen_pids, not_found, idx>>
    /\ UNCHANGED <<op, targets, parseVars, cmdVars>>

\* resolve_pid collecting the Option into a list, empty when absent
resolve_pid_collect(pid) == Ok(find_by_pid(procTable, pid))

\* resolve_pid
resolve_pid(pid) ==
    IF find_by_pid(procTable, pid) # <<>>
    THEN Ok(find_by_pid(procTable, pid))
    ELSE Err("ProcessNotFound", 0, WideToString(pid))

\* resolve_target up to its first read of an OS table: parse_target, then
\* resolve_pid, Process::find_by_name, or the socket lookup of resolve_port
ResolveTarget ==
    /\ rpc = "resolve"
    /\ UNCHANGED osVars
    /\ LET t == parse_target(targets[idx])
       IN  CASE t.tag = "Pid" -> Return(resolve_pid(t.num))
             [] t.tag = "Name" ->
                  LET found == {p \in procTable : NameMatches(p, t.name)}
                  IN  IF found = {}
                      THEN Return(Err("ProcessNotFound", 0, t.name))
                      ELSE \E order \in Orders(found) : Return(Ok(order))
             [] t.tag = "Port" ->
                  IF ~enumerable THEN Return(Err("SystemError", 0, <<>>))
                  ELSE IF find_by_port(socks, t.num) = <<>>
                  THEN Return(Err("PortNotFound", t.num.lo, <<>>))
                  ELSE /\ portInfo' = find_by_port(socks, t.num)[1]
                       /\ rpc' = "port_pid"
                       /\ UNCHANGED <<op, targets, idx, result, all_processes,
                                      seen_pids, not_found, ret, log, parseVars,
                                      cmdVars>>

\* the owner lookup reporting a missing owner the way resolve_pid does
ResolveOwnerAsPid ==
    /\ rpc = "port_pid"
    /\ UNCHANGED osVars
    /\ Return(resolve_pid(Wide(portInfo.pid)))

\* the owner lookup probing the owner with a signal before looking it up
ResolveOwnerProbing ==
    /\ rpc = "port_pid"
    /\ signals' = Append(signals, <<"SIGCONT", portInfo.pid>>)
    /\ UNCHANGED <<procTable, socks, enumerable>>
    /\ IF find_by_pid(procTable, Wide(portInfo.pid)) # <<>>
       THEN Return(Ok(find_by_pid(procTable, Wide(portInfo.pid))))
       ELSE Return(Err("ProcessGone", portInfo.pid, <<>>))

\* resolve_port after the socket was found: the lookup of its owner
ResolveOwner ==
    /\ rpc = "port_pid"
    /\ UNCHANGED osVars
    /\ IF find_by_pid(procTable, Wide(portInfo.pid)) # <<>>
       THEN Return(Ok(find_by_pid(procTable, Wide(portInfo.pid))))
       ELSE Return(Err("ProcessGone", portInfo.pid, <<>>))

StartCall(name, ts) ==
    /\ rpc = "idle"
    /\ op' = name
    /\ targets' = ts
    /\ idx' = 1
    /\ rpc' = IF ts = <<>> THEN "done" ELSE "resolve"
    /\ UNCHANGED <<portInfo, result, all_processes, seen_pids, not_found, ret, log,
                   parseVars, osVars, cmdVars>>

\* resolve_targets(targets) is called
CallResolveTargets == \E ts \in TargetLists : StartCall("resolve_targets", ts)

\* resolve_target_single(target) is called
CallResolveTargetSingle == \E t \in TargetPool : StartCall("resolve_target_single", <<t>>)

\* the filter of find_ports_for_pid
FilterByPid(table, pid) == SelectSeq(table, LAMBDA e : e.pid = pid)

\* find_ports_for_pid(pid): one enumeration of the sockets, filtered
FindPortsForPid ==
    /\ rpc = "idle"
    /\ \E pid \in PidArgs :
          ret' = IF enumerable THEN Ok(FilterByPid(socks, pid))
                 ELSE Err("SystemError", 0, <<>>)
    /\ op' = "find_ports_for_pid"
    /\ rpc' = "done"
    /\ UNCHANGED <<targets, idx, portInfo, result, all_processes, seen_pids,
                   not_found, log, parseVars, osVars, cmdVars>>

\* environment: a process exits and its listening sockets are closed
ProcessExit ==
    /\ rpc # "done"
    /\ \E p \in procTable :
          /\ procTable' = procTable \ {p}
          /\ socks' = SelectSeq(socks, LAMBDA e : e.pid # p.pid)
    /\ UNCHANGED <<enumerable, signals, parseVars, callVars, cmdVars>>

InitResolve ==
    /\ input = <<>>
    /\ ppc = "start"
    /\ target = NoTarget
    /\ pieces = <<>>
    /\ procTable = Catalog
    /\ socks \in SockConfigs
    /\ enumerable \in BOOLEAN
    /\ signals = <<>>
    /\ IdleCall
    /\ IdleCmd

NextResolve ==
    \/ CallResolveTargets
    \/ CallResolveTargetSingle
    \/ FindPortsForPid
    \/ ResolveTarget
    \/ ResolveOwner
    \/ ProcessExit

SpecResolve == InitResolve /\ [][NextResolve]_vars

-----------------------------------------------------------------------------
(* Process::find_stuck: two refreshes of the process table, half a second  *)
(* apart, and a filter over the second                                     *)

\* the longest --timeout, in seconds; run times are counted up to one more
MaxSecs == 2

\* the CPU shares a refresh may measure, in percent: idle, the recovery
\* threshold, the stuck threshold, and above it
CpuLevels == {0, 10, 50, 51}

RunTimes == 0..(MaxSecs + 1)

\* System::refresh_all: the live processes with their current accounting
Refresh ==
    {[pid |-> p.pid, cpu_percent |-> usage[p.pid].cpu_percent,
      run_time |-> usage[p.pid].run_time] : p \in procTable}

\* Process::from_sysinfo, as far as the commands read the result
from_sysinfo(proc) == [pid |-> proc.pid, cpu_percent |-> proc.cpu_percent]

\* the filter of find_stuck applied to the processes of the first refresh
find_stuck_first_sample(snapshot, timeout_secs) ==
    {from_sysinfo(proc) : proc \in
        {q \in sys : q.run_time > timeout_secs /\ q.cpu_percent > 50}}

\* the filter and map of find_stuck over the refreshed System
find_stuck(snapshot, timeout_secs) ==
    {from_sysinfo(proc) : proc \in
        {q \in snapshot : q.run_time > timeout_secs /\ q.cpu_percent > 50}}

\* the accounting of the initial states: every live process measured
InitUsage ==
    /\ procTable = Catalog
    /\ socks = <<>>
    /\ enumerable = TRUE
    /\ signals = <<>>
    /\ usage \in [PidPool -> [cpu_percent : CpuLevels, run_time : RunTimes]]

\* find_stuck: System::new_all and the first refresh_all
FindStuckPrime ==
    /\ self.cmd = "stuck" \/ (self.cmd = "unstick" /\ ~self.has_target)
    /\ cpc = "start"
    /\ sys' = Refresh
    /\ cpc' = "sampled"
    /\ UNCHANGED <<usage, self, stuck, parseVars, osVars, callVars>>
    /\ UNCHANGED attemptVars

\* find_stuck after the sleep: the second refresh_all, the filter, Ok(..);
\* stuck without --kill only prints what was found and returns
FindStuck ==
    /\ self.cmd = "stuck" \/ (self.cmd = "unstick" /\ ~self.has_target)
    /\ cpc = "sampled"
    /\ sys' = Refresh
    /\ \E order \in Orders(find_stuck(Refresh, self.timeout)) : stuck' = Ok(order)
    /\ cpc' = IF self.cmd = "stuck" /\ ~self.kill THEN "done" ELSE "found"
    /\ UNCHANGED <<usage, self, parseVars, osVars, callVars>>
    /\ UNCHANGED attemptVars

\* environment: a process exits while a command runs
Exits ==
    /\ cpc \notin {"idle", "done"}
    /\ \E p \in procTable :
          /\ procTable' = procTable \ {p}
          /\ usage' = [usage EXCEPT ![p.pid] = NoUsage]
    /\ UNCHANGED <<socks, enumerable, signals, self, cpc, sys, stuck,
                   parseVars, callVars>>
    /\ UNCHANGED attemptVars

\* environment: the CPU share of a live process changes, while a command
\* that reads it runs
CpuChanges ==
    /\ self.cmd \in {"stuck", "unstick"}
    /\ cpc \notin {"idle", "done"}
    /\ \E p \in procTable, c \in CpuLevels :
          /\ c # usage[p.pid].cpu_percent
          /\ usage' = [usage EXCEPT ![p.pid].cpu_percent = c]
    /\ UNCHANGED <<self, cpc, sys, stuck, parseVars, osVars, callVars>>
    /\ UNCHANGED attemptVars

\* environment: a second passes for every live process
Tick ==
    /\ cpc \notin {"idle", "done"}
    /\ \E p \in procTable : usage[p.pid].run_time <= MaxSecs
    /\ usage' = [pid \in PidPool |->
                   IF (\E p \in procTable : p.pid = pid) /\ usage[pid].run_time <= MaxSecs
                   THEN [usage[pid] EXCEPT !.run_time = @ + 1]
                   ELSE usage[pid]]
    /\ UNCHANGED <<self, cpc, sys, stuck, parseVars, osVars, callVars>>
    /\ UNCHANGED attemptVars

InitStuck ==
    /\ input = <<>>
    /\ ppc = "start"
    /\ target = NoTarget
    /\ pieces = <<>>
    /\ InitUsage
    /\ IdleCall
    /\ self \in [cmd : {"stuck"}, timeout : 0..MaxSecs, kill : {FALSE}, yes : {FALSE},
                 json : {FALSE}]
    /\ cpc = "start"
    /\ sys = {}
    /\ stuck = NoResult
    /\ IdleAttempt

NextStuck ==
    \/ FindStuckPrime
    \/ FindStuck
    \/ Exits
    \/ CpuChanges
    \/ Tick

SpecStuck == InitStuck /\ [][NextStuck]_vars

-----------------------------------------------------------------------------
(* commands::unstick: UnstickCommand::execute and attempt_unstick.  One    *)
(* attempt is a sequence of steps separated by the sleeps of the code; the *)
(* environment acts between the steps.  Every observation and every signal *)
(* of an attempt is appended to its script.                                *)

\* Process::is_running / Process::exists
is_running(pid) == \E p \in procTable : p.pid = pid

\* nix kill(pid, signal) and Process::kill: whether the send can succeed;
\* it fails when the process is gone and may fail when it is not (EPERM)
SendResults(pid) == IF is_running(pid) THEN BOOLEAN ELSE {FALSE}

\* UnstickCommand::is_stuck with the recovery threshold in place of the
\* high one
is_stuck_above_recovered(proc) == proc.cpu_percent >= 10

\* UnstickCommand::is_stuck
is_stuck(proc) == proc.cpu_percent > 50

\* check_recovered counting a process at the threshold as recovered
check_recovered_inclusive(pid) == is_running(pid) /\ usage[pid].cpu_percent <= 10

\* check_recovered reading the CPU share of the snapshot execute started
\* with
check_recovered_snapshot(pid) ==
    \E k \in 1..Len(stuck.procs) :
        stuck.procs[k].pid = pid /\ stuck.procs[k].cpu_percent < 10

\* UnstickCommand::check_recovered
check_recovered(pid) == is_running(pid) /\ usage[pid].cpu_percent < 10

\* what check_recovered observed, as an event of the script
Observed(pid) ==
    IF ~is_running(pid) THEN "gone"
    ELSE IF usage[pid].cpu_percent < 10 THEN "low" ELSE "busy"

\* the number of outcomes of one kind
Count(os, kind) == Cardinality({k \in 1..Len(os) : os[k].outcome = kind})

\* UnstickOutput with a success flag that looks at the failures only
UnstickOutputFailedOnly(os, n) ==
    [success |-> Count(os, "Failed") = 0,
     found |-> n,
     recovered |-> Count(os, "Recovered"),
     not_stuck |-> Count(os, "NotStuck"),
     still_stuck |-> Count(os, "StillStuck"),
     terminated |-> Count(os, "Terminated"),
     failed |-> Count(os, "Failed")]

\* the UnstickOutput printed with --json; without it the counts are printed
UnstickOutput(os, n) ==
    IF self.json
    THEN [success |-> Count(os, "Failed") = 0 /\ Count(os, "StillStuck") = 0,
          found |-> n,
          recovered |-> Count(os, "Recovered"),
          not_stuck |-> Count(os, "NotStuck"),
          still_stuck |-> Count(os, "StillStuck"),
          terminated |-> Count(os, "Terminated"),
          failed |-> Count(os, "Failed")]
    ELSE [found |-> n,
          recovered |-> Count(os, "Recovered"),
          not_stuck |-> Count(os, "NotStuck"),
          still_stuck |-> Count(os, "StillStuck"),
          terminated |-> Count(os, "Terminated"),
          failed |-> Count(os, "Failed")]

\* the decision after the interrupt and its sleep, without the exit check
after_interrupt_unchecked(running, recovered) ==
    IF recovered THEN "Recovered"
    ELSE IF ~self.force THEN "StillStuck"
    ELSE "escalate"

\* the decision after the interrupt and its sleep, without the force gate
after_interrupt_ungated(running, recovered) ==
    IF ~running THEN "Terminated"
    ELSE IF recovered THEN "Recovered"
    ELSE "escalate"

\* the decision after the interrupt and its sleep, taking the interrupt for
\* fatal unless the process recovered
after_interrupt_presumed(running, recovered) ==
    IF recovered THEN "Recovered" ELSE "Terminated"

\* attempt_unstick after the interrupt and its sleep: the outcome, or the
\* escalation to the terminate signal
after_interrupt(running, recovered) ==
    IF ~running THEN "Terminated"
    ELSE IF recovered THEN "Recovered"
    ELSE IF ~self.force THEN "StillStuck"
    ELSE "escalate"

\* the attempt goes on with every signal sent a second time
ContinueResending(pos, events, sent) ==
    /\ apc' = pos
    /\ script' = script \o events \o sent
    /\ signals' = signals \o [k \in 1..(2 * Len(sent)) |->
                                 <<sent[(k + 1) \div 2], stuck.procs[nth].pid>>]
    /\ UNCHANGED <<nth, outcomes, report, status, cpc>>

\* the attempt goes on: events joins the script, sent is delivered
Continue(pos, events, sent) ==
    /\ apc' = pos
    /\ script' = script \o events
    /\ signals' = signals \o [k \in 1..Len(sent) |-> <<sent[k], stuck.procs[nth].pid>>]
    /\ UNCHANGED <<nth, outcomes, report, status, cpc>>

\* attempt_unstick returning twice: the outcome is pushed and the process is
\* attempted again
FinishRetrying(outcome, events, sent) ==
    /\ outcomes' = Append(outcomes, [pid |-> stuck.procs[nth].pid, outcome |-> outcome,
                                     script |-> script \o events])
    /\ signals' = signals \o [k \in 1..Len(sent) |-> <<sent[k], stuck.procs[nth].pid>>]
    /\ script' = <<>>
    /\ apc' = "entry"
    /\ IF Len(outcomes) >= Len(stuck.procs)
       THEN /\ cpc' = "done"
            /\ nth' = nth + 1
            /\ report' = UnstickOutput(outcomes', Len(stuck.procs))
            /\ status' = Ok(<<>>)
       ELSE UNCHANGED <<cpc, nth, report, status>>

\* execute giving up at the first Failed outcome: the error is returned and
\* the remaining processes are left alone
FinishAborting(outcome, events, sent) ==
    /\ outcomes' = Append(outcomes, [pid |-> stuck.procs[nth].pid, outcome |-> outcome,
                                     script |-> script \o events])
    /\ signals' = signals \o [k \in 1..Len(sent) |-> <<sent[k], stuck.procs[nth].pid>>]
    /\ script' = <<>>
    /\ apc' = "entry"
    /\ nth' = nth + 1
    /\ IF outcome = "Failed"
       THEN /\ cpc' = "done"
            /\ status' = Err("SignalError", 0, <<>>)
            /\ UNCHANGED report
       ELSE IF nth = Len(stuck.procs)
       THEN /\ cpc' = "done"
            /\ report' = UnstickOutput(outcomes', Len(stuck.procs))
            /\ status' = Ok(<<>>)
       ELSE UNCHANGED <<cpc, report, status>>

\* attempt_unstick returns outcome: execute pushes it and moves to the next
\* process, or counts the outcomes, prints them and returns Ok
Finish(outcome, events, sent) ==
    /\ outcomes' = Append(outcomes, [pid |-> stuck.procs[nth].pid, outcome |-> outcome,
                                     script |-> script \o events])
    /\ signals' = signals \o [k \in 1..Len(sent) |-> <<sent[k], stuck.procs[nth].pid>>]
    /\ script' = <<>>
    /\ apc' = "entry"
    /\ nth' = nth + 1
    /\ IF nth = Len(stuck.procs)
       THEN /\ cpc' = "done"
            /\ report' = UnstickOutput(outcomes', Len(stuck.procs))
            /\ status' = Ok(<<>>)
       ELSE UNCHANGED <<cpc, report, status>>

\* what no step of an attempt changes
AttemptFrame ==
    UNCHANGED <<socks, enumerable, self, unix, sys, stuck, processes, elapsed, exit_code,
                confirmed, parseVars, callVars>>

\* execute with a target: resolve_target_processes
UnstickResolve ==
    /\ self.cmd = "unstick" /\ self.has_target
    /\ cpc = "start"
    /\ \/ /\ status' = Err("ProcessNotFound", 0, <<>>)
          /\ cpc' = "done"
          /\ UNCHANGED stuck
       \/ \E S \in (SUBSET Refresh) \ {{}} : \E order \in Orders({from_sysinfo(q) : q \in S}) :
             /\ stuck' = Ok(order)
             /\ cpc' = "found"
             /\ UNCHANGED status
    /\ UNCHANGED <<usage, self, unix, sys, nth, apc, script, outcomes, report,
                   processes, elapsed, exit_code, confirmed, parseVars, osVars, callVars>>

\* execute between the discovery and the loop: nothing found, the dry run,
\* the confirmation prompt
UnstickConfirm ==
    /\ self.cmd = "unstick"
    /\ cpc = "found"
    /\ IF stuck.procs = <<>>
       THEN /\ report' = UnstickOutput(<<>>, 0)
            /\ status' = Ok(<<>>)
            /\ cpc' = "done"
            /\ UNCHANGED confirmed
       ELSE IF self.dry_run
       THEN /\ report' = UnstickOutput(<<>>, Len(stuck.procs))
            /\ status' = Ok(<<>>)
            /\ cpc' = "done"
            /\ UNCHANGED confirmed
       ELSE IF ~self.yes /\ ~self.json
       THEN \E answer \in {"yes", "no", "error"} :
               /\ confirmed' = answer
               /\ status' = IF answer = "yes" THEN status
                            ELSE IF answer = "no" THEN Ok(<<>>)
                            ELSE Err("SystemError", 0, <<>>)
               /\ cpc' = IF answer = "yes" THEN "loop" ELSE "done"
               /\ UNCHANGED report
       ELSE /\ cpc' = "loop"
            /\ UNCHANGED <<report, status, confirmed>>
    /\ UNCHANGED <<usage, self, unix, sys, stuck, nth, apc, script, outcomes,
                   processes, elapsed, exit_code, parseVars, osVars, callVars>>

\* attempt_unstick up to its first sleep: the entry check; on Unix the
\* continue signal; elsewhere the force gate and terminate
AttemptEntry ==
    /\ self.cmd = "unstick"
    /\ cpc = "loop" /\ apc = "entry"
    /\ LET proc == stuck.procs[nth]
       IN  IF self.has_target /\ ~is_stuck(proc) THEN Finish("NotStuck", <<>>, <<>>)
           ELSE IF unix THEN Continue("cont_sent", <<"SIGCONT">>, <<"SIGCONT">>)
           ELSE IF ~self.force THEN Finish("StillStuck", <<>>, <<>>)
           ELSE \E ok \in BOOLEAN :
                   Continue(IF ok THEN "term_sent" ELSE "kill", <<"SIGTERM">>, <<"SIGTERM">>)
    /\ UNCHANGED <<procTable, usage>>
    /\ AttemptFrame

\* Unix, after the continue signal and its sleep: check_recovered, then the
\* interrupt signal
AttemptAfterCont ==
    /\ self.cmd = "unstick"
    /\ cpc = "loop" /\ apc = "cont_sent"
    /\ LET pid == stuck.procs[nth].pid
       IN  IF check_recovered(pid) THEN Finish("Recovered", <<Observed(pid)>>, <<>>)
           ELSE \E ok \in SendResults(pid) :
                   IF ~ok /\ ~is_running(pid)
                   THEN Finish("Terminated", <<Observed(pid), "SIGINT", "gone">>, <<"SIGINT">>)
                   ELSE Continue("int_sent", <<Observed(pid), "SIGINT">>, <<"SIGINT">>)
    /\ UNCHANGED <<procTable, usage>>
    /\ AttemptFrame

\* Unix, after the interrupt signal and its sleep: is_running,
\* check_recovered, the force gate, then terminate
AttemptAfterInt ==
    /\ self.cmd = "unstick"
    /\ cpc = "loop" /\ apc = "int_sent"
    /\ LET pid == stuck.procs[nth].pid
           next == after_interrupt(is_running(pid), check_recovered(pid))
       IN  IF next # "escalate" THEN Finish(next, <<Observed(pid)>>, <<>>)
           ELSE \E ok \in SendResults(pid) :
                   IF ~ok /\ ~is_running(pid)
                   THEN Finish("Terminated", <<Observed(pid), "SIGTERM", "gone">>, <<"SIGTERM">>)
                   ELSE Continue("term_sent", <<Observed(pid), "SIGTERM">>, <<"SIGTERM">>)
    /\ UNCHANGED <<procTable, usage>>
    /\ AttemptFrame

\* after terminate and its sleep: is_running; a process still there goes on
\* to the forceful kill
AttemptAfterTerm ==
    /\ self.cmd = "unstick"
    /\ cpc = "loop" /\ apc = "term_sent"
    /\ IF ~is_running(stuck.procs[nth].pid)
       THEN Finish("Terminated", <<"gone">>, <<>>)
       ELSE Continue("kill", <<"alive">>, <<>>)
    /\ UNCHANGED <<procTable, usage>>
    /\ AttemptFrame

\* the outcome of the match on Process::kill when the kill failed: Unix
\* looks whether the process is still running, the other variant does not
kill_failed(running) == IF unix /\ ~running THEN "Terminated" ELSE "Failed"

\* the final step: Process::kill and the match on its result.  Process::kill
\* looks the pid up and fails without a signal when it is absent; a process
\* that is found may refuse the signal, and may be gone when is_running
\* looks for it afterwards; the killed process leaves the process table
AttemptKill ==
    /\ self.cmd = "unstick"
    /\ cpc = "loop" /\ apc = "kill"
    /\ LET pid == stuck.procs[nth].pid
       IN  IF ~is_running(pid)
           THEN /\ Finish(kill_failed(FALSE), <<"absent">>, <<>>)
                /\ UNCHANGED <<procTable, usage>>
           ELSE \E ok \in BOOLEAN, stays \in BOOLEAN :
                   /\ ok => ~stays
                   /\ Finish(IF ok THEN "Terminated" ELSE kill_failed(stays),
                             <<"present", "SIGKILL">> \o
                                 (IF ok THEN <<"delivered">>
                                  ELSE <<"refused", IF stays THEN "alive" ELSE "gone">>),
                             <<"SIGKILL">>)
                   /\ IF stays
                      THEN UNCHANGED <<procTable, usage>>
                      ELSE /\ procTable' = {p \in procTable : p.pid # pid}
                           /\ usage' = [usage EXCEPT ![pid] = NoUsage]
    /\ AttemptFrame

InitUnstick ==
    /\ input = <<>>
    /\ ppc = "start"
    /\ target = NoTarget
    /\ pieces = <<>>
    /\ procTable = Catalog
    /\ socks = <<>>
    /\ enumerable = TRUE
    /\ signals = <<>>
    /\ usage \in [PidPool -> [cpu_percent : CpuLevels, run_time : {MaxSecs + 1}]]
    /\ IdleCall
    /\ self \in [cmd : {"unstick"}, timeout : {MaxSecs}, has_target : BOOLEAN,
                 force : BOOLEAN, yes : BOOLEAN, dry_run : BOOLEAN, json : BOOLEAN]
    /\ unix \in BOOLEAN
    /\ cpc = "start"
    /\ sys = {}
    /\ stuck = NoResult
    /\ nth = 1
    /\ apc = "entry"
    /\ script = <<>>
    /\ outcomes = <<>>
    /\ report = NoResult
    /\ status = NoResult
    /\ processes = <<>>
    /\ elapsed = 0
    /\ exit_code = -1
    /\ confirmed = "unasked"

NextUnstick ==
    \/ UnstickResolve
    \/ FindStuckPrime
    \/ FindStuck
    \/ UnstickConfirm
    \/ AttemptEntry
    \/ AttemptAfterCont
    \/ AttemptAfterInt
    \/ AttemptAfterTerm
    \/ AttemptKill
    \/ Exits
    \/ CpuChanges

SpecUnstick == InitUnstick /\ [][NextUnstick]_vars

-----------------------------------------------------------------------------
(* commands::kill and commands::stop: target resolution, confirmation, and *)
(* the signal loop.  The script of a process holds the signals sent to it  *)
(* and what each poll and lookup observed.                                 *)

\* the longest --timeout of stop, counted in polls of wait_for_exit
MaxPolls == 2

\* Process::find_by_name: Err when nothing matches, else the matches in
\* any order
find_by_name(pattern) ==
    LET hits == {p \in procTable : NameMatches(p, pattern)}
    IN  IF hits = {} THEN {Err("ProcessNotFound", 0, pattern)}
        ELSE {Ok(order) : order \in Orders(hits)}

\* KillCommand::find_by_port, and resolve_port of core::target
port_owner(port) ==
    IF ~enumerable THEN {Err("SystemError", 0, <<>>)}
    ELSE IF find_by_port(socks, port) = <<>> THEN {Err("PortNotFound", port.lo, <<>>)}
    ELSE LET pid == find_by_port(socks, port)[1].pid
         IN  IF find_by_pid(procTable, Wide(pid)) # <<>>
             THEN {Ok(find_by_pid(procTable, Wide(pid)))}
             ELSE {Err("ProcessGone", pid, <<>>)}

\* core::target::resolve_target as the one call stop makes
resolve_target(t) ==
    LET parsed == parse_target(t)
    IN  CASE parsed.tag = "Pid" -> {resolve_pid(parsed.num)}
          [] parsed.tag = "Name" -> find_by_name(parsed.name)
          [] parsed.tag = "Port" -> port_owner(parsed.num)

\* KillCommand::resolve_target returning whatever the port lookup of a
\* small number returned
kill_resolve_target_port_only(t) ==
    LET trimmed == Trim(t)
        pid == ParseUnsigned(trimmed, U32MaxHi)
    IN  IF StartsWith(trimmed, ":")
        THEN IF parse_port(trimmed) = ParseErr
             THEN {Err("InvalidInput", 0, trimmed)}
             ELSE port_owner(parse_port(trimmed))
        ELSE IF pid # ParseErr
        THEN IF pid.hi = 0
             THEN port_owner(pid)
             ELSE IF find_by_pid(procTable, pid) # <<>>
             THEN {Ok(find_by_pid(procTable, pid))}
             ELSE {Err("ProcessNotFound", 0, trimmed)}
        ELSE find_by_name(trimmed)

\* KillCommand::resolve_target
kill_resolve_target(t) ==
    LET trimmed == Trim(t)
        pid == ParseUnsigned(trimmed, U32MaxHi)
    IN  IF StartsWith(trimmed, ":")
        THEN IF parse_port(trimmed) = ParseErr
             THEN {Err("InvalidInput", 0, trimmed)}
             ELSE port_owner(parse_port(trimmed))
        ELSE IF pid # ParseErr
        THEN IF pid.hi = 0 /\ \E r \in port_owner(pid) : r.ok /\ r.procs # <<>>
             THEN port_owner(pid)
             ELSE IF find_by_pid(procTable, pid) # <<>>
             THEN {Ok(find_by_pid(procTable, pid))}
             ELSE {Err("ProcessNotFound", 0, trimmed)}
        ELSE find_by_name(trimmed)

\* the first resolution step of the command that is running
ResolveOnce(t) == IF self.cmd = "kill" THEN kill_resolve_target(t) ELSE resolve_target(t)

\* the arguments kill and stop are run with
SignalTargets ==
    {<<":">> \o Str3000, Str3000, StrNode, <<"5", "0", "0">>, <<"z", "z">>,
     <<":">> \o Str3000 \o <<",">> \o StrNode, StrNode \o <<",", "s", "h">>,
     Str70000}

\* Process::terminate: the SIGTERM send on Unix, taskkill elsewhere
TerminateResults(pid) == IF unix THEN SendResults(pid) ELSE BOOLEAN

\* wait_for_exit killing at the first poll that finds the process alive
wait_for_exit_impatient(polls, running) ==
    IF polls < self.timeout /\ ~running THEN "exited" ELSE "timeout"

\* one evaluation of the loop of wait_for_exit
wait_for_exit(polls, running) ==
    IF polls < self.timeout
    THEN IF ~running THEN "exited" ELSE "sleep"
    ELSE "timeout"

\* StopOutput / KillOutput: printed in full with --json
SignalOutput(os) ==
    IF self.json
    THEN [success |-> Count(os, "failed") = 0, count |-> Len(os) - Count(os, "failed"),
          failed_count |-> Count(os, "failed")]
    ELSE [count |-> Len(os) - Count(os, "failed"), failed_count |-> Count(os, "failed")]

\* the process is pushed to stopped / killed or to failed, and the loop
\* moves on or the command prints its result and returns
Push(outcome, events, sent) ==
    /\ outcomes' = Append(outcomes, [pid |-> processes[nth].pid, outcome |-> outcome,
                                     script |-> script \o events])
    /\ signals' = signals \o [k \in 1..Len(sent) |-> <<sent[k], processes[nth].pid>>]
    /\ script' = <<>>
    /\ apc' = "entry"
    /\ elapsed' = 0
    /\ nth' = nth + 1
    /\ IF nth = Len(processes)
       THEN /\ cpc' = "done"
            /\ report' = SignalOutput(outcomes')
            /\ status' = IF self.cmd = "kill" /\ Count(outcomes', "failed") > 0
                         THEN Err("SignalError", Count(outcomes', "failed"), <<>>)
                         ELSE Ok(<<>>)
       ELSE UNCHANGED <<cpc, report, status>>

\* what no step of kill or stop changes
SignalFrame ==
    UNCHANGED <<socks, enumerable, self, unix, sys, stuck, processes, exit_code, confirmed,
                parseVars, callVars>>

\* the dry-run test of kill giving way to --yes
is_dry_run_unless_yes == self.cmd = "kill" /\ self.dry_run /\ ~self.yes

\* KillCommand::execute: if self.dry_run; stop has no such flag
is_dry_run == self.cmd = "kill" /\ self.dry_run

\* execute of kill and stop up to the loop: resolution, the empty check,
\* the dry run of kill, the confirmation prompt
Begin ==
    /\ self.cmd \in {"kill", "stop"}
    /\ cpc = "start"
    /\ \E r \in ResolveOnce(self.target), answer \in {"yes", "no", "error"} :
          /\ processes' = r.procs
          /\ IF ~r.ok
             THEN status' = r /\ cpc' = "done" /\ UNCHANGED confirmed
             ELSE IF r.procs = <<>>
             THEN /\ status' = Err("ProcessNotFound", 0, self.target)
                  /\ cpc' = "done"
                  /\ UNCHANGED confirmed
             ELSE IF is_dry_run
             THEN status' = Ok(<<>>) /\ cpc' = "done" /\ UNCHANGED confirmed
             ELSE IF self.yes \/ self.json
             THEN status' = status /\ cpc' = "loop" /\ UNCHANGED confirmed
             ELSE /\ confirmed' = answer
                  /\ cpc' = IF answer = "yes" THEN "loop" ELSE "done"
                  /\ status' = IF answer = "yes" THEN status
                               ELSE IF answer = "error" /\ self.cmd = "stop"
                               THEN Err("SystemError", 0, <<>>)
                               ELSE Ok(<<>>)
    /\ UNCHANGED <<usage, self, unix, sys, stuck, nth, apc, script, outcomes, report,
                   elapsed, exit_code, parseVars, osVars, callVars>>

\* kill, one iteration: terminate with --graceful, else Process::kill
KillSend ==
    /\ self.cmd = "kill" /\ cpc = "loop"
    /\ LET pid == processes[nth].pid
       IN  IF self.graceful
           THEN /\ \E ok \in TerminateResults(pid) :
                      Push(IF ok THEN "killed" ELSE "failed", <<"SIGTERM">>, <<"SIGTERM">>)
                /\ UNCHANGED <<procTable, usage>>
           ELSE IF ~is_running(pid)
           THEN /\ Push("failed", <<"absent">>, <<>>)
                /\ UNCHANGED <<procTable, usage>>
           ELSE \E ok \in BOOLEAN :
                   /\ Push(IF ok THEN "killed" ELSE "failed",
                           <<"present", "SIGKILL">>, <<"SIGKILL">>)
                   /\ procTable' = IF ok THEN {p \in procTable : p.pid # pid} ELSE procTable
                   /\ UNCHANGED usage
    /\ SignalFrame

\* stop, one iteration up to the wait: Process::terminate
StopTerminate ==
    /\ self.cmd = "stop" /\ cpc = "loop" /\ apc = "entry"
    /\ \E ok \in TerminateResults(processes[nth].pid) :
          IF ok
          THEN /\ apc' = "wait"
               /\ script' = <<"SIGTERM">>
               /\ signals' = Append(signals, <<"SIGTERM", processes[nth].pid>>)
               /\ UNCHANGED <<nth, outcomes, report, status, cpc, elapsed>>
          ELSE Push("failed", <<"SIGTERM">>, <<"SIGTERM">>)
    /\ UNCHANGED <<procTable, usage>>
    /\ SignalFrame

\* stop, wait_for_exit: one poll of the process and its sleep
StopWait ==
    /\ self.cmd = "stop" /\ cpc = "loop" /\ apc = "wait"
    /\ LET pid == processes[nth].pid
       IN  /\ wait_for_exit(elapsed, is_running(pid)) # "timeout"
           /\ IF wait_for_exit(elapsed, is_running(pid)) = "exited"
              THEN Push("stopped", <<"gone">>, <<>>)
              ELSE /\ elapsed' = elapsed + 1
                   /\ script' = Append(script, "alive")
                   /\ UNCHANGED <<signals, nth, apc, outcomes, report, status, cpc>>
    /\ UNCHANGED <<procTable, usage>>
    /\ SignalFrame

\* stop, after wait_for_exit returned false: Process::kill_and_wait
StopKill ==
    /\ self.cmd = "stop" /\ cpc = "loop" /\ apc = "wait"
    /\ LET pid == processes[nth].pid
       IN  /\ wait_for_exit(elapsed, is_running(pid)) = "timeout"
           /\ IF ~is_running(pid)
              THEN /\ Push("failed", <<"absent">>, <<>>)
                   /\ UNCHANGED procTable
              ELSE \E ok \in BOOLEAN :
                      /\ Push(IF ok THEN "stopped" ELSE "failed",
                              <<"present", "SIGKILL">>, <<"SIGKILL">>)
                      /\ procTable' = IF ok THEN {p \in procTable : p.pid # pid}
                                      ELSE procTable
    /\ UNCHANGED usage
    /\ SignalFrame

InitSignal ==
    /\ input = <<>>
    /\ ppc = "start"
    /\ target = NoTarget
    /\ pieces = <<>>
    /\ procTable = Catalog
    /\ socks \in {s \in SockConfigs : Len(s) <= 1}
    /\ enumerable \in BOOLEAN
    /\ signals = <<>>
    /\ usage = [p \in PidPool |-> NoUsage]
    /\ IdleCall
    /\ self \in [cmd : {"kill"}, target : SignalTargets, yes : BOOLEAN, json : BOOLEAN,
                 dry_run : BOOLEAN, graceful : BOOLEAN]
          \cup [cmd : {"stop"}, target : SignalTargets, yes : BOOLEAN, json : BOOLEAN,
                timeout : 0..MaxPolls]
    /\ unix \in BOOLEAN
    /\ cpc = "start"
    /\ sys = {}
    /\ stuck = NoResult
    /\ nth = 1
    /\ apc = "entry"
    /\ script = <<>>
    /\ outcomes = <<>>
    /\ report = NoResult
    /\ status = NoResult
    /\ processes = <<>>
    /\ elapsed = 0
    /\ exit_code = -1
    /\ confirmed = "unasked"

NextSignal ==
    \/ Begin
    \/ KillSend
    \/ StopTerminate
    \/ StopWait
    \/ StopKill
    \/ Exits

SpecSignal == InitSignal /\ [][NextSignal]_vars

-----------------------------------------------------------------------------
(* commands::stuck with --kill, commands::info, and the four commands that *)
(* signal processes side by side with info                                 *)

\* StuckCommand::execute after find_stuck: nothing found, --kill absent,
\* the confirmation prompt
StuckConfirm ==
    /\ self.cmd = "stuck"
    /\ cpc = "found"
    /\ \E answer \in {"yes", "no", "error"} :
          /\ processes' = IF stuck.procs # <<>> /\ self.kill THEN stuck.procs ELSE processes
          /\ confirmed' = IF stuck.procs # <<>> /\ self.kill /\ ~self.yes /\ ~self.json
                           THEN answer ELSE confirmed
          /\ cpc' = IF stuck.procs = <<>> \/ ~self.kill THEN "done"
                    ELSE IF ~self.yes /\ ~self.json /\ answer # "yes" THEN "done"
                    ELSE "loop"
          /\ status' = IF cpc' = "done" THEN Ok(<<>>) ELSE status
    /\ UNCHANGED <<usage, self, unix, sys, stuck, nth, apc, script, outcomes, report,
                   elapsed, exit_code, parseVars, osVars, callVars>>

\* stuck --kill, one iteration: Process::kill_and_wait
StuckKill ==
    /\ self.cmd = "stuck" /\ cpc = "loop"
    /\ LET pid == processes[nth].pid
       IN  IF ~is_running(pid)
           THEN /\ Push("failed", <<"absent">>, <<>>)
                /\ UNCHANGED <<procTable, usage>>
           ELSE \E ok \in BOOLEAN :
                   /\ Push(IF ok THEN "killed" ELSE "failed",
                           <<"present", "SIGKILL">>, <<"SIGKILL">>)
                   /\ IF ok
                      THEN /\ procTable' = {p \in procTable : p.pid # pid}
                           /\ usage' = [usage EXCEPT ![pid] = NoUsage]
                      ELSE UNCHANGED <<procTable, usage>>
    /\ SignalFrame

\* the loop of InfoCommand::execute over the targets: every way it can end,
\* as the processes found and the targets not found
RECURSIVE InfoResolve(_, _, _, _)
InfoResolve(ts, found, seen, missing) ==
    IF ts = <<>> THEN {[found |-> found, not_found |-> missing]}
    ELSE UNION {IF r.ok /\ r.procs # <<>>
                THEN InfoResolve(Tail(ts), Accumulate(r.procs, found, seen).acc,
                                 Accumulate(r.procs, found, seen).seen, missing)
                ELSE InfoResolve(Tail(ts), found, seen, Append(missing, Head(ts)))
                : r \in resolve_target(Head(ts))}

\* the InfoOutput printed with --json
InfoOutput(found, missing) ==
    [success |-> found # <<>>, found_count |-> Len(found),
     not_found_count |-> Len(missing)]

\* InfoCommand::execute
InfoExecute ==
    /\ self.cmd = "info"
    /\ cpc = "start"
    /\ \E run \in InfoResolve(parse_targets(self.target), <<>>, {}, <<>>) :
          /\ processes' = run.found
          /\ report' = IF self.json THEN InfoOutput(run.found, run.not_found) ELSE report
    /\ status' = Ok(<<>>)
    /\ cpc' = "done"
    /\ UNCHANGED <<usage, self, unix, sys, stuck, nth, apc, script, outcomes,
                   elapsed, exit_code, confirmed, parseVars, osVars, callVars>>

\* stuck run with every combination of --kill, --yes and --json
InitStuckKill ==
    /\ input = <<>>
    /\ ppc = "start"
    /\ target = NoTarget
    /\ pieces = <<>>
    /\ procTable = Catalog
    /\ socks = <<>>
    /\ enumerable = TRUE
    /\ signals = <<>>
    /\ usage \in [PidPool -> [cpu_percent : CpuLevels, run_time : {MaxSecs + 1}]]
    /\ IdleCall
    /\ self \in [cmd : {"stuck"}, timeout : {MaxSecs}, kill : BOOLEAN, yes : BOOLEAN,
                 json : BOOLEAN]
    /\ cpc = "start"
    /\ sys = {}
    /\ stuck = NoResult
    /\ IdleAttempt

InitInfo ==
    /\ input = <<>>
    /\ ppc = "start"
    /\ target = NoTarget
    /\ pieces = <<>>
    /\ procTable = Catalog
    /\ socks \in {s \in SockConfigs : Len(s) <= 1}
    /\ enumerable \in BOOLEAN
    /\ signals = <<>>
    /\ usage = [p \in PidPool |-> NoUsage]
    /\ IdleCall
    /\ self \in [cmd : {"info"}, target : SignalTargets, json : BOOLEAN]
    /\ cpc = "start"
    /\ sys = {}
    /\ stuck = NoResult
    /\ IdleAttempt

InitCommands == InitUnstick \/ InitSignal \/ InitStuckKill \/ InitInfo

NextCommands ==
    \/ UnstickResolve
    \/ FindStuckPrime
    \/ FindStuck
    \/ UnstickConfirm
    \/ AttemptEntry
    \/ AttemptAfterCont
    \/ AttemptAfterInt
    \/ AttemptAfterTerm
    \/ AttemptKill
    \/ Begin
    \/ KillSend
    \/ StopTerminate
    \/ StopWait
    \/ StopKill
    \/ StuckConfirm
    \/ StuckKill
    \/ InfoExecute
    \/ Exits
    \/ CpuChanges

SpecCommands == InitCommands /\ [][NextCommands]_vars

-----------------------------------------------------------------------------
(* main: the exit code of the process, from what execute returned *)

\* the variants of ProcError
ErrorKinds ==
    {"ProcessNotFound", "PortNotFound", "PermissionDenied", "InvalidInput",
     "SystemError", "Timeout", "ParseError", "NotSupported", "ProcessGone",
     "SignalError"}

\* the conversion without the codes of PermissionDenied and InvalidInput
ExitCodeCoarse(err) == IF err \in {"ProcessNotFound", "PortNotFound"} THEN 2 ELSE 1

\* impl From<&ProcError> for ExitCode, as i32
ExitCode(err) ==
    CASE err \in {"ProcessNotFound", "PortNotFound"} -> 2
      [] err = "PermissionDenied" -> 3
      [] err = "InvalidInput" -> 4
      [] OTHER -> 1

\* main after execute returned: the process exits with the code of the
\* error, or returns from main with code 0
MainExit ==
    /\ cpc = "done"
    /\ exit_code' = IF status.ok THEN 0 ELSE ExitCode(status.err)
    /\ cpc' = "exited"
    /\ UNCHANGED <<usage, self, sys, stuck, unix, nth, apc, script, outcomes, report,
                   status, processes, elapsed, confirmed, parseVars, osVars, callVars>>

InitExit ==
    /\ input = <<>>
    /\ ppc = "start"
    /\ target = NoTarget
    /\ pieces = <<>>
    /\ IdleOs
    /\ IdleCall
    /\ usage = [p \in {} |-> NoUsage]
    /\ self \in [cmd : {"on", "by", "in", "list", "info", "ports", "kill", "stop", "tree",
                        "stuck", "unstick"}]
    /\ cpc = "done"
    /\ sys = {}
    /\ stuck = NoResult
    /\ unix \in BOOLEAN
    /\ nth = 1
    /\ apc = "entry"
    /\ script = <<>>
    /\ outcomes = <<>>
    /\ report = NoResult
    /\ status \in {Ok(<<>>)}
                  \cup {Err(kind, n, t) : kind \in ErrorKinds, n \in {0, 80, 500, 3000},
                                          t \in {<<>>, StrNode, <<"z", "z">>}}
    /\ processes = <<>>
    /\ elapsed = 0
    /\ exit_code = -1
    /\ confirmed = "unasked"

SpecExit == InitExit /\ [][MainExit]_vars

-----------------------------------------------------------------------------
(* Properties of parsing *)

AllDigits(s) == s # <<>> /\ \A i \in 1..Len(s) : IsDigit(s[i])

RECURSIVE StripZeros(_)
StripZeros(s) == IF s # <<>> /\ Head(s) = "0" THEN StripZeros(Tail(s)) ELSE s

RECURSIVE DecValue(_)
\* decimal value of a digit string of at most nine significant digits
DecValue(s) ==
    IF s = <<>> THEN 0 ELSE DecValue(SubSeq(s, 1, Len(s) - 1)) * 10 + DigitVal(s[Len(s)])

\* s <= t for digit strings of equal length
DigitsLE(s, t) ==
    \/ s = t
    \/ \E i \in 1..Len(s) :
          /\ DigitVal(s[i]) < DigitVal(t[i])
          /\ \A j \in 1..(i - 1) : s[j] = t[j]

\* the digit string denotes a value of at most 65535
FitsU16(s) ==
    /\ AllDigits(s)
    /\ Len(StripZeros(s)) <= 5
    /\ DecValue(StripZeros(s)) <= 65535

\* the digit string denotes a value of at most 4294967295
FitsU32(s) ==
    /\ AllDigits(s)
    /\ \/ Len(StripZeros(s)) < 10
       \/ Len(StripZeros(s)) = 10 /\ DigitsLE(StripZeros(s), StrU32Max)

\* the two-limb number w is the value of the digit string s (which fits
\* 32 bits): w div 10 and w mod 10 are compared, so nothing overflows
IsValueOf(w, s) ==
    LET z == IF StripZeros(s) = <<>> THEN <<"0">> ELSE StripZeros(s)
    IN  /\ w.hi \in 0..65535 /\ w.lo \in 0..65535
        /\ w.hi * 6553 + ((w.hi * 6 + w.lo) \div 10) = DecValue(SubSeq(z, 1, Len(z) - 1))
        /\ (w.hi * 6 + w.lo) % 10 = DigitVal(z[Len(z)])

\* the part of s between its surrounding whitespace, found by position
Core(s) ==
    LET ink == {i \in 1..Len(s) : ~IsWhitespace(s[i])}
    IN  IF ink = {} THEN <<>>
        ELSE SubSeq(s, CHOOSE i \in ink : \A j \in ink : i <= j,
                       CHOOSE i \in ink : \A j \in ink : i >= j)

\* ':' followed only by digits whose value is at most 65535
IsColonPort(s) == Len(s) >= 2 /\ s[1] = ":" /\ FitsU16(Tail(s))

\* C1: an input that is ':' followed only by decimal digits of value at
\* most 65535, possibly surrounded by whitespace, parses as Port(n) with n
\* that value, never as Pid or Name.
C1_ColonDigitsIsPort ==
    (ppc = "parsed" /\ IsColonPort(Core(input))) =>
        /\ target.tag = "Port"
        /\ target.num.hi = 0
        /\ IsValueOf(target.num, Tail(Core(input)))

C1_Witness ==
    /\ ppc = "parsed"
    /\ input = <<" ", ":">> \o Str65535 \o <<" ">>
    /\ target = Port([hi |-> 0, lo |-> 65535])

\* C2: an input that is purely decimal digits fitting in 32 bits parses
\* as Pid(n) with n its value; a bare number up to 65535 is a Pid too.
C2_BareDigitsIsPid ==
    (ppc = "parsed" /\ FitsU32(input)) =>
        /\ target.tag = "Pid"
        /\ IsValueOf(target.num, input)

C2_Witness ==
    /\ ppc = "parsed"
    /\ input \in {Str3000, StrU32Max}
    /\ target.tag = "Pid"
    /\ target.num \in {[hi |-> 0, lo |-> 3000], [hi |-> 65535, lo |-> 65535]}

\* C3: every non-empty input that is neither ':' + digits <= 65535 nor a
\* bare decimal number fitting in 32 bits parses as Name of the input.
C3_EverythingElseIsName ==
    (/\ ppc = "parsed"
     /\ Core(input) # <<>>
     /\ ~IsColonPort(Core(input))
     /\ ~FitsU32(Core(input))) =>
        target = Name(Core(input))

\* what is left of the trimmed input after its one ':' prefix
AfterColon(s) == Tail(Core(s))

\* C4 (as claimed): a ':'-prefixed input whose remainder is no unsigned
\* 16-bit integer is not re-tried: the result is neither Pid nor Name.
C4_NoRetryAfterColon ==
    (/\ ppc = "parsed"
     /\ StartsWith(Core(input), ":")
     /\ ParseUnsigned(AfterColon(input), U16MaxHi) = ParseErr) =>
        target.tag \notin {"Pid", "Name"}

\* C4 (amended): such an input falls through to the other variants: it is
\* never a Pid, it is Name(trimmed input) whenever parse_port rejects it,
\* and it is a Port only when the remainder itself begins with ':'.
C4_FallsThroughToName ==
    (/\ ppc = "parsed"
     /\ StartsWith(Core(input), ":")
     /\ ParseUnsigned(AfterColon(input), U16MaxHi) = ParseErr) =>
        /\ target.tag # "Pid"
        /\ parse_port(input) = ParseErr => target = Name(Core(input))
        /\ target.tag = "Port" => StartsWith(AfterColon(input), ":")

C4_Witness ==
    /\ ppc = "parsed"
    /\ input = <<":">> \o Str70000
    /\ target = Name(<<":">> \o Str70000)

\* positions that delimit the comma-separated segments of s
Cuts(s) == {0, Len(s) + 1} \cup {i \in 1..Len(s) : s[i] = ","}

NextCut(s, c) == CHOOSE d \in Cuts(s) : d > c /\ \A e \in Cuts(s) : e > c => d <= e

\* the trimmed segment that starts after cut c
Segment(s, c) == Core(SubSeq(s, c + 1, NextCut(s, c) - 1))

\* the cuts whose segment is kept
Kept(s) == {c \in Cuts(s) \ {Len(s) + 1} : Segment(s, c) # <<>>}

KthKept(s, k) == CHOOSE c \in Kept(s) : Cardinality({d \in Kept(s) : d < c}) = k - 1

RECURSIVE Join(_, _)
\* [String]::join(sep)
Join(ps, sep) ==
    IF ps = <<>> THEN <<>>
    ELSE IF Len(ps) = 1 THEN Head(ps)
    ELSE Head(ps) \o <<sep>> \o Join(Tail(ps), sep)

\* C5: parse_targets returns exactly the comma-separated segments of the
\* input, trimmed, without the empty ones, in input order; joining the
\* result with ',' and parsing again gives the same list.
C5_SplitTrimDropKeepOrder ==
    ppc = "split" =>
        /\ Len(pieces) = Cardinality(Kept(input))
        /\ \A k \in 1..Len(pieces) : pieces[k] = Segment(input, KthKept(input, k))
        /\ parse_targets(Join(pieces, ",")) = pieces

C5_Witness ==
    /\ ppc = "split"
    /\ input = <<" ">> \o Str3000 \o <<",", ",", " ", "7">> \o <<" ">>
    /\ pieces = <<Str3000, <<"7">>>>


-----------------------------------------------------------------------------
(* Properties of resolution *)

\* the target being resolved, parsed
Current == parse_target(targets[idx])

\* the pids of a list of processes, in order
PidsOf(ps) == [k \in 1..Len(ps) |-> ps[k].pid]

RECURSIVE Flatten(_)
\* the processes of the successful results of a history, in order
Flatten(h) == IF h = <<>> THEN <<>> ELSE Head(h).procs \o Flatten(Tail(h))

\* position of the first occurrence of x in the sequence q
FirstAt(q, x) == CHOOSE k \in 1..Len(q) : q[k] = x /\ \A j \in 1..(k - 1) : q[j] # x

\* C6: the list resolve_targets builds holds each pid at most once, holds
\* every pid some successfully resolved target resolved to, and keeps the
\* processes in the order of their first appearance across the targets.
C6_DedupedInFirstAppearanceOrder ==
    op = "resolve_targets" =>
        LET got == PidsOf(all_processes)
            seenInOrder == PidsOf(Flatten(log))
        IN  /\ \A j, k \in 1..Len(got) : j # k => got[j] # got[k]
            /\ {got[k] : k \in 1..Len(got)} = {seenInOrder[k] : k \in 1..Len(seenInOrder)}
            /\ \A j, k \in 1..Len(got) :
                  j < k => FirstAt(seenInOrder, got[j]) < FirstAt(seenInOrder, got[k])
            /\ \A k \in 1..Len(got) :
                  all_processes[k] = Flatten(log)[FirstAt(seenInOrder, got[k])]

C6_Witness ==
    /\ op = "resolve_targets"
    /\ rpc = "done"
    /\ targets = <<StrNode, <<":">> \o Str3000>>
    /\ Len(log) = 2 /\ log[1].ok /\ log[2].ok
    /\ Len(log[1].procs) = 2
    /\ PidsOf(all_processes) = <<3000, 500>>
    /\ log[2].procs[1].pid = 500

\* the targets among the first n whose resolve_target call failed, in order
FailedAmong(n) ==
    LET failedAt == {k \in 1..n : ~log[k].ok}
        kth(m) == CHOOSE k \in failedAt : Cardinality({j \in failedAt : j < k}) = m - 1
    IN  [m \in 1..Cardinality(failedAt) |-> targets[kth(m)]]

\* C7: a target whose resolution fails, whatever the error, goes to the
\* not-found list and the remaining targets are still resolved: not_found
\* is exactly the failed targets in input order, every target gets its
\* result, and resolve_targets itself returns no error.
C7_FailuresIsolated ==
    op = "resolve_targets" =>
        /\ Len(log) = idx - 1
        /\ not_found = FailedAmong(Len(log))
        /\ rpc = "done" => Len(log) = Len(targets)
        /\ rpc # "done" => idx \in 1..Len(targets) /\ rpc \in {"resolve", "port_pid"}
        /\ ret = NoResult

C7_Witness ==
    /\ op = "resolve_targets"
    /\ rpc = "done"
    /\ Len(log) = 2
    /\ log[1].err = "SystemError"
    /\ log[2].ok
    /\ not_found = <<targets[1]>>
    /\ all_processes # <<>>

\* C8: when the socket table reported an owner for the port and the process
\* table, read afterwards, has no such pid, resolve_target fails with
\* ProcessGone carrying that pid.
C8_StaleOwnerIsProcessGone ==
    [][(/\ rpc = "port_pid"
        /\ \A p \in procTable : p.pid # portInfo.pid
        /\ log' # log)
       => result' = Err("ProcessGone", portInfo.pid, <<>>)]_vars

C8_Witness ==
    /\ result = Err("ProcessGone", 500, <<>>)
    /\ ProcNode \notin procTable
    /\ parse_target(targets[Len(log)]) = Port(Wide(3000))

\* no socket of the table listens on the port
NoListener(port) == \A k \in 1..Len(socks) : Wide(socks[k].port) # port

\* the pid is absent from the process table
NoProcess(pid) == \A p \in procTable : Wide(p.pid) # pid

\* C9 (as claimed): a Pid target absent from the process table fails with
\* ProcessNotFound, a Port target with no listening socket fails with
\* PortNotFound, and no resolve_target call succeeds with an empty list.
C9_NotFoundKinds ==
    [][(rpc = "resolve" /\ log' # log) =>
          /\ (Current.tag = "Pid" /\ NoProcess(Current.num))
                => result'.err = "ProcessNotFound"
          /\ (Current.tag = "Port" /\ NoListener(Current.num))
                => result'.err = "PortNotFound"
          /\ result'.ok => result'.procs # <<>>]_vars

\* C9 (amended): a Pid target absent from the process table fails with
\* ProcessNotFound; a Port target with no listening socket fails with
\* PortNotFound when the sockets could be enumerated and with SystemError
\* when the enumeration itself failed; no call succeeds with an empty list.
C9_NotFoundKindsWhenEnumerated ==
    [][(log' # log) =>
          /\ (rpc = "resolve" /\ Current.tag = "Pid" /\ NoProcess(Current.num))
                => result'.err = "ProcessNotFound"
          /\ (rpc = "resolve" /\ Current.tag = "Port" /\ NoListener(Current.num))
                => result'.err = IF enumerable THEN "PortNotFound" ELSE "SystemError"
          /\ result'.ok => result'.procs # <<>>]_vars

C9_Witness ==
    /\ op = "resolve_targets"
    /\ Len(log) = 2
    /\ parse_target(targets[1]).tag = "Pid" /\ log[1].err = "ProcessNotFound"
    /\ parse_target(targets[2]).tag = "Port" /\ log[2].err = "PortNotFound"

\* C10: resolution is a query: no step of parse_target, resolve_target,
\* resolve_target_single, resolve_targets or find_ports_for_pid changes the
\* process table or the socket table, and none delivers a signal, on
\* success and on every error path.
C10_ResolutionIsAQuery ==
    [][/\ (callVars' # callVars \/ parseVars' # parseVars)
            => UNCHANGED <<procTable, socks, enumerable, signals>>
       /\ signals' = <<>>]_vars

C10_Witness ==
    /\ op = "resolve_targets"
    /\ rpc = "done"
    /\ Len(log) = 2
    /\ log[1].ok /\ log[1].procs[1].pid = 500
    /\ log[2].err = "ProcessGone"
    /\ procTable # Catalog
    /\ signals = <<>>

-----------------------------------------------------------------------------
(* The stuck detector *)

\* the pids of a list of processes
PidsIn(procs) == {procs[k].pid : k \in 1..Len(procs)}

\* C11: find_stuck returns Ok with exactly the processes of its second sample
\* whose run time is strictly greater than the timeout and whose CPU share is
\* strictly greater than 50, each once; an empty list is returned as Ok too
C11_StuckIsSecondSampleFilter ==
    (self.cmd = "stuck" /\ cpc = "done") =>
        /\ stuck.ok
        /\ sys = Refresh
        /\ \A q \in sys :
              (q.run_time > self.timeout /\ q.cpu_percent > 50)
                  <=> (\E k \in 1..Len(stuck.procs) :
                          stuck.procs[k] = [pid |-> q.pid, cpu_percent |-> q.cpu_percent])
        /\ PidsIn(stuck.procs) \subseteq {q.pid : q \in sys}
        /\ Cardinality(PidsIn(stuck.procs)) = Len(stuck.procs)

\* find_stuck reported one process and left out one at exactly 50 percent
\* that ran longer than the timeout
C11_Witness ==
    /\ self.cmd = "stuck"
    /\ cpc = "done"
    /\ Len(stuck.procs) = 1
    /\ \E q \in sys :
          /\ q.cpu_percent = 50
          /\ q.run_time > self.timeout
          /\ q.pid \notin PidsIn(stuck.procs)

-----------------------------------------------------------------------------
(* The recovery engine *)

TerminationSignals == {"SIGTERM", "SIGKILL"}

AllSignals == {"SIGCONT", "SIGINT"} \cup TerminationSignals

\* the signals of a script, in order
SignalsIn(scr) == SelectSeq(scr, LAMBDA e : e \in AllSignals)

\* the signals delivered to pid so far, in order
SignalsTo(pid) ==
    LET mine == SelectSeq(signals, LAMBDA s : s[2] = pid)
    IN  [k \in 1..Len(mine) |-> mine[k][1]]

\* the process of the k-th outcome as the discovery reported it
Snapshot(k) == stuck.procs[k]

C13_NoTerminationWithoutForce ==
    (self.cmd = "unstick" /\ ~self.force) =>
        \A i \in 1..Len(signals) : signals[i][1] \in {"SIGCONT", "SIGINT"}

\* a run without --force ended with a process still stuck after both
\* recovery signals
C13_Witness ==
    /\ self.cmd = "unstick" /\ ~self.force /\ cpc = "done"
    /\ \E k \in 1..Len(outcomes) :
          /\ outcomes[k].outcome = "StillStuck"
          /\ SignalsTo(outcomes[k].pid) = <<"SIGCONT", "SIGINT">>

\* the process of the k-th outcome stayed alive and at or above 10 percent
\* at every check of its attempt, the discovery's measurement included
NeverBelowRecovery(k) ==
    /\ Snapshot(k).cpu_percent >= 10
    /\ \A i \in 1..Len(outcomes[k].script) : outcomes[k].script[i] \notin {"gone", "low"}

\* the k-th attempt ended StillStuck with the process running at its last
\* check and without a terminate or kill signal
EndedStillStuck(k) ==
    /\ outcomes[k].outcome = "StillStuck"
    /\ unix => outcomes[k].script # <<>> /\ outcomes[k].script[Len(outcomes[k].script)] = "busy"
    /\ \A i \in 1..Len(outcomes[k].script) : outcomes[k].script[i] \notin TerminationSignals

\* C14 as stated: without --force, every process that stays alive and never
\* drops below 10 percent at any check ends StillStuck, still running, with
\* no terminate or kill signal sent
C14_BusyWithoutForceIsStillStuck ==
    (self.cmd = "unstick" /\ ~self.force) =>
        \A k \in 1..Len(outcomes) : NeverBelowRecovery(k) => EndedStillStuck(k)

\* C14: without --force, a process that passes the entry check (it was
\* auto-discovered, or its measured CPU is above 50 percent), stays alive and
\* never drops below 10 percent at any check ends StillStuck, still running,
\* with no terminate or kill signal sent; an explicit target measured at 50
\* percent or less ends NotStuck instead
C14_StuckBusyWithoutForceIsStillStuck ==
    (self.cmd = "unstick" /\ ~self.force) =>
        \A k \in 1..Len(outcomes) :
            NeverBelowRecovery(k) =>
                IF self.has_target /\ Snapshot(k).cpu_percent <= 50
                THEN outcomes[k].outcome = "NotStuck"
                ELSE EndedStillStuck(k)

\* on Unix without --force, an explicit target measured above 50 percent
\* stayed exactly at 10 percent at both checks and ended StillStuck
C14_Witness ==
    /\ self.cmd = "unstick" /\ ~self.force /\ unix /\ self.has_target
    /\ \E k \in 1..Len(outcomes) :
          /\ outcomes[k].script = <<"SIGCONT", "busy", "SIGINT", "busy">>
          /\ outcomes[k].outcome = "StillStuck"
          /\ is_running(outcomes[k].pid)
          /\ usage[outcomes[k].pid].cpu_percent = 10

\* C15: each process gets exactly one outcome, in the order of the list, and
\* is never attempted again: the signals a process has received are exactly
\* those of its one attempt, so none is sent once its outcome is determined
C15_OneOutcomeNoSignalAfter ==
    self.cmd = "unstick" =>
        /\ Len(outcomes) <= Len(stuck.procs)
        /\ \A k \in 1..Len(outcomes) :
              /\ outcomes[k].pid = Snapshot(k).pid
              /\ \A j \in 1..Len(outcomes) : outcomes[j].pid = outcomes[k].pid => j = k
              /\ SignalsTo(outcomes[k].pid) = SignalsIn(outcomes[k].script)
        /\ (cpc = "loop" /\ nth \in 1..Len(stuck.procs)) =>
              SignalsTo(Snapshot(nth).pid) = SignalsIn(script)
        /\ (cpc = "done" /\ outcomes # <<>>) => Len(outcomes) = Len(stuck.procs)

\* with --force, the first of two processes was killed and the second one
\* failed, and the run is over
C15_Witness ==
    /\ self.cmd = "unstick" /\ cpc = "done" /\ unix
    /\ Len(outcomes) = 2
    /\ outcomes[1].outcome = "Terminated"
    /\ SignalsTo(outcomes[1].pid) = <<"SIGCONT", "SIGINT", "SIGTERM", "SIGKILL">>
    /\ outcomes[2].outcome = "Failed"

\* C16 as stated: an explicit target ends NotStuck, with no signal sent,
\* exactly when its measured CPU is below 10 percent; auto-discovered
\* processes never end NotStuck
C16_NotStuckBelowRecoveryThreshold ==
    self.cmd = "unstick" =>
        \A k \in 1..Len(outcomes) :
            /\ outcomes[k].outcome = "NotStuck"
                  <=> (self.has_target /\ Snapshot(k).cpu_percent < 10)
            /\ outcomes[k].outcome = "NotStuck" => outcomes[k].script = <<>>

\* C16: an explicit target ends NotStuck, with no signal sent, exactly when
\* its measured CPU is not above 50 percent (a target above 50 percent
\* proceeds to the continue signal); auto-discovered processes never end
\* NotStuck
C16_NotStuckAtOrBelowStuckThreshold ==
    self.cmd = "unstick" =>
        \A k \in 1..Len(outcomes) :
            /\ outcomes[k].outcome = "NotStuck"
                  <=> (self.has_target /\ Snapshot(k).cpu_percent <= 50)
            /\ outcomes[k].outcome = "NotStuck" =>
                  outcomes[k].script = <<>> /\ SignalsTo(outcomes[k].pid) = <<>>

\* of two explicit targets, the one measured at 50 percent ended NotStuck
\* and the one measured at 51 percent was sent the continue signal
C16_Witness ==
    /\ self.cmd = "unstick" /\ self.has_target
    /\ \E k, j \in 1..Len(outcomes) :
          /\ Snapshot(k).cpu_percent = 50
          /\ outcomes[k].outcome = "NotStuck"
          /\ Snapshot(j).cpu_percent = 51
          /\ outcomes[j].outcome # "NotStuck"
          /\ unix => outcomes[j].script[1] = "SIGCONT"

\* C17: the five tallies of the report count the outcomes of each kind and
\* sum to the number of processes attempted, and the success flag of the
\* JSON report is true exactly when failed = 0 and still_stuck = 0
C17_TalliesSumAndSuccess ==
    (self.cmd = "unstick" /\ report # NoResult) =>
        /\ report.recovered = Cardinality({k \in 1..Len(outcomes) : outcomes[k].outcome = "Recovered"})
        /\ report.terminated = Cardinality({k \in 1..Len(outcomes) : outcomes[k].outcome = "Terminated"})
        /\ report.still_stuck = Cardinality({k \in 1..Len(outcomes) : outcomes[k].outcome = "StillStuck"})
        /\ report.not_stuck = Cardinality({k \in 1..Len(outcomes) : outcomes[k].outcome = "NotStuck"})
        /\ report.failed = Cardinality({k \in 1..Len(outcomes) : outcomes[k].outcome = "Failed"})
        /\ report.recovered + report.terminated + report.still_stuck
              + report.not_stuck + report.failed = Len(outcomes)
        /\ self.json => (report.success <=> (report.failed = 0 /\ report.still_stuck = 0))

\* a JSON report of two attempts, one recovered and one still stuck, that
\* says the run did not succeed
C17_Witness ==
    /\ self.cmd = "unstick" /\ self.json /\ report # NoResult
    /\ Len(outcomes) = 2
    /\ report.recovered = 1
    /\ report.still_stuck = 1
    /\ report.failed = 0
    /\ ~report.success

-----------------------------------------------------------------------------
(* Signal and lifecycle operations *)

\* the scripts of the run: one per finished process, and the running one
Scripts == {outcomes[k].script : k \in 1..Len(outcomes)} \cup {script}

\* C18: stop sends the terminate signal first; the kill signal is sent only
\* after terminate was accepted, after as many polls found the process alive
\* as the timeout allows, and after the lookup of kill_and_wait found it
\* still present; it is never sent once a poll observed the process gone
C18_KillOnlyAfterTerminateAndTimeout ==
    self.cmd = "stop" =>
        /\ \A scr \in Scripts : \A i \in 1..Len(scr) :
              scr[i] = "SIGKILL" =>
                  /\ i > 2
                  /\ scr[1] = "SIGTERM"
                  /\ scr[i - 1] = "present"
                  /\ Cardinality({j \in 1..i : scr[j] = "alive"}) = self.timeout
                  /\ \A j \in 1..i : scr[j] # "gone"
        /\ \A k \in 1..Len(outcomes) :
              SignalsTo(outcomes[k].pid) = SignalsIn(outcomes[k].script)

\* stop with a positive timeout: one process outlived every poll and was
\* killed after terminate, another was seen gone and was not
C18_Witness ==
    /\ self.cmd = "stop" /\ self.timeout > 0 /\ Len(outcomes) = 2
    /\ \E k, j \in 1..2 :
          /\ SignalsTo(outcomes[k].pid) = <<"SIGTERM", "SIGKILL">>
          /\ Len(outcomes[k].script) = self.timeout + 3
          /\ outcomes[j].script[Len(outcomes[j].script)] = "gone"
          /\ SignalsTo(outcomes[j].pid) = <<"SIGTERM">>

\* the pids that the pieces of a comma-separated argument resolve to, each
\* piece resolved on its own
PiecePids(t) ==
    LET ps == parse_targets(t)
    IN  UNION {PidsIn(r.procs) : r \in UNION {ResolveOnce(ps[k]) : k \in 1..Len(ps)}}

\* C19 as stated: kill and stop given a comma-separated argument resolve
\* each piece independently and work on the union of the processes the
\* pieces resolve to
C19_MultiTargetUnion ==
    (/\ self.cmd \in {"kill", "stop"}
     /\ cpc \in {"loop", "done"}
     /\ signals = <<>> /\ procTable = Catalog
     /\ Len(parse_targets(self.target)) > 1) =>
        PidsIn(processes) = PiecePids(self.target)

\* C20: a command that returns Ok exits with 0; ProcessNotFound and
\* PortNotFound exit with 2, PermissionDenied with 3, InvalidInput with 4 and
\* every other error with 1; every result has exactly one code
C20_ExitCodeMapping ==
    cpc = "exited" =>
        /\ status.ok => exit_code = 0
        /\ ~status.ok => status.err \in ErrorKinds
        /\ (~status.ok /\ status.err \in {"ProcessNotFound", "PortNotFound"}) => exit_code = 2
        /\ (~status.ok /\ status.err = "PermissionDenied") => exit_code = 3
        /\ (~status.ok /\ status.err = "InvalidInput") => exit_code = 4
        /\ (~status.ok /\ status.err \in {"SystemError", "Timeout", "ParseError",
                                         "NotSupported", "ProcessGone", "SignalError"})
              => exit_code = 1
        /\ exit_code \in 0..4

\* a command failed with ProcessGone and the process exited with code 1
C20_Witness ==
    /\ cpc = "exited"
    /\ status.err = "ProcessGone"
    /\ exit_code = 1


\* C21 as stated: the JSON result of info, stop and unstick carries success
\* = TRUE only when no item failed and no target stayed unresolved: with
\* success set, info has no target that was not found, stop has no failed
\* process, and unstick has no Failed and no StillStuck outcome
C21_JsonSuccessOnlyWhenAllSucceeded ==
    (/\ self.cmd \in {"info", "stop", "unstick"}
     /\ self.json
     /\ cpc = "done"
     /\ report # NoResult
     /\ report.success) =>
        CASE self.cmd = "info" -> report.not_found_count = 0
          [] self.cmd = "stop" -> Count(outcomes, "failed") = 0
          [] self.cmd = "unstick" ->
                Count(outcomes, "Failed") = 0 /\ Count(outcomes, "StillStuck") = 0


\* C22 as stated: in kill, stop, stuck --kill and unstick a signal is sent
\* only if the user answered yes to the prompt or passed --yes, with or
\* without --json; after a declined prompt the command has ended and no
\* signal was sent
C22_NoSignalWithoutConfirmation ==
    self.cmd \in {"kill", "stop", "stuck", "unstick"} =>
        /\ signals # <<>> => (self.yes \/ confirmed = "yes")
        /\ confirmed = "no" => (signals = <<>> /\ cpc = "done" /\ status.ok)


\* C23: with --dry-run, kill and unstick send no signal and never enter the
\* signal loop or the prompt, whatever --yes, --force, --graceful and --json
\* are; once processes were found the command returns Ok, and unstick
\* reports their number with every tally at zero
C23_DryRunSendsNothing ==
    (self.cmd \in {"kill", "unstick"} /\ self.dry_run) =>
        /\ signals = <<>>
        /\ outcomes = <<>>
        /\ cpc # "loop"
        /\ confirmed = "unasked"
        /\ (self.cmd = "kill" /\ cpc = "done" /\ processes # <<>>) => status = Ok(<<>>)
        /\ (self.cmd = "unstick" /\ cpc = "done" /\ stuck.ok) =>
              /\ status = Ok(<<>>)
              /\ report = UnstickOutput(<<>>, Len(stuck.procs))

\* kill --dry-run --yes --json found two processes and returned Ok
C23_Witness ==
    /\ self.cmd = "kill" /\ self.dry_run /\ self.yes /\ self.json
    /\ cpc = "done"
    /\ Len(processes) = 2
    /\ status = Ok(<<>>)
    /\ signals = <<>>


\* the script of an attempt whose forceful kill reported failure: the lookup
\* of Process::kill found nothing, or the signal was refused
KillReportedFailure(scr) == \E i \in 1..Len(scr) : scr[i] \in {"absent", "refused"}

\* the process was gone when the forceful kill reported failure
GoneAtKillFailure(scr) ==
    KillReportedFailure(scr) /\ scr[Len(scr)] \in {"absent", "gone"}

\* C24 as stated: on the Unix and on the other variant of the engine, an
\* attempt whose forceful kill failed with the process gone ends Terminated,
\* and an attempt ends Failed only if the forceful kill failed and the
\* process was still there
C24_KillFailureGoneIsTerminated ==
    self.cmd = "unstick" =>
        \A k \in 1..Len(outcomes) :
            /\ GoneAtKillFailure(outcomes[k].script) => outcomes[k].outcome = "Terminated"
            /\ outcomes[k].outcome = "Failed" =>
                  /\ KillReportedFailure(outcomes[k].script)
                  /\ ~GoneAtKillFailure(outcomes[k].script)


\* C25: an attempt ends Recovered only on a lookup made after a signal was
\* sent that found the process present with CPU below 10%: the script of a
\* Recovered attempt starts with a signal and ends with the observation
\* "low"; a check that found the process absent or at 10% or more never
\* ends Recovered; and the snapshot plays no part, since every attempt whose
\* check observed "low" ends Recovered there, whatever the snapshot held
C25_RecoveredOnlyOnFreshLowCheck ==
    self.cmd = "unstick" =>
        \A k \in 1..Len(outcomes) :
            LET scr == outcomes[k].script
            IN  /\ outcomes[k].outcome = "Recovered" =>
                      /\ Len(scr) >= 2
                      /\ scr[1] \in AllSignals
                      /\ scr[Len(scr)] = "low"
                /\ \A i \in 1..Len(scr) :
                      scr[i] = "low" => (i = Len(scr) /\ outcomes[k].outcome = "Recovered")

\* a process measured above 50% in the snapshot was found below 10% by the
\* lookup after the interrupt signal and is Recovered
C25_Witness ==
    /\ self.cmd = "unstick" /\ unix
    /\ \E k \in 1..Len(outcomes) :
          /\ outcomes[k].outcome = "Recovered"
          /\ outcomes[k].script = <<"SIGCONT", "busy", "SIGINT", "low">>
          /\ Snapshot(k).cpu_percent > 50


\* the position of a pid in the list unstick works through, 0 if absent
PositionOf(pid) ==
    IF \E j \in 1..Len(stuck.procs) : stuck.procs[j].pid = pid
    THEN CHOOSE j \in 1..Len(stuck.procs) : stuck.procs[j].pid = pid
    ELSE 0

\* C26: unstick handles the processes of its list one after another: the
\* k-th outcome belongs to the k-th process, a signal goes only to a process
\* whose predecessors all have their outcome, and the signals follow the
\* order of the list; a Failed outcome does not end the batch: once the loop
\* was entered the command ends only with an outcome for every process of
\* the list, and it returns Ok
C26_BatchSequentialAndComplete ==
    (self.cmd = "unstick" /\ stuck.ok) =>
        /\ Len(outcomes) <= Len(stuck.procs)
        /\ \A k \in 1..Len(outcomes) : outcomes[k].pid = stuck.procs[k].pid
        /\ \A i \in 1..Len(signals) :
              /\ PositionOf(signals[i][2]) \in 1..(Len(outcomes) + 1)
              /\ \A j \in 1..(i - 1) :
                    PositionOf(signals[j][2]) <= PositionOf(signals[i][2])
        /\ (cpc = "done" /\ outcomes # <<>>) =>
              /\ Len(outcomes) = Len(stuck.procs)
              /\ status = Ok(<<>>)

\* the forceful kill of the first of two processes failed; the second was
\* signalled afterwards and has its outcome, and the command returned Ok
C26_Witness ==
    /\ self.cmd = "unstick" /\ cpc = "done"
    /\ Len(outcomes) = 2
    /\ outcomes[1].outcome = "Failed"
    /\ SignalsIn(outcomes[2].script) # <<>>
    /\ status = Ok(<<>>)


\* the argument is a bare decimal number
IsBareNumber(t) == t # <<>> /\ \A i \in 1..Len(t) : IsDigit(t[i])

\* the live owner of the first listening socket on port n, <<>> if n is no
\* port number, the sockets cannot be listed, nothing listens or the owner
\* is gone
LiveOwner(n) ==
    IF n.hi = 0 /\ enumerable /\ find_by_port(socks, n) # <<>>
    THEN find_by_pid(procTable, Wide(find_by_port(socks, n)[1].pid))
    ELSE <<>>

Escalation == <<"SIGCONT", "SIGINT", "SIGTERM", "SIGKILL">>

\* scr holds a prefix of the escalation: continue, interrupt, terminate,
\* kill, each at most once and none skipped
IsEscalationPrefix(scr) ==
    /\ Len(SignalsIn(scr)) <= Len(Escalation)
    /\ SignalsIn(scr) = SubSeq(Escalation, 1, Len(SignalsIn(scr)))

\* C28: on Unix the signals of every attempt, finished or running, are a
\* prefix of continue, interrupt, terminate, kill; a process receives
\* exactly the signals of its attempt; and a finished attempt that sent no
\* signal ended NotStuck
C28_SignalsFormEscalationPrefix ==
    (self.cmd = "unstick" /\ unix) =>
        /\ \A scr \in Scripts : IsEscalationPrefix(scr)
        /\ \A k \in 1..Len(outcomes) :
              /\ SignalsTo(outcomes[k].pid) = SignalsIn(outcomes[k].script)
              /\ SignalsIn(outcomes[k].script) = <<>> => outcomes[k].outcome = "NotStuck"

\* on Unix one attempt went through all four signals, and another process
\* was not stuck and got none
C28_Witness ==
    /\ self.cmd = "unstick" /\ unix
    /\ \E k \in 1..Len(outcomes) : SignalsIn(outcomes[k].script) = Escalation
    /\ \E k \in 1..Len(outcomes) :
          /\ outcomes[k].outcome = "NotStuck"
          /\ SignalsTo(outcomes[k].pid) = <<>>


\* C29: an attempt ends Terminated only if one of its existence checks
\* found the process absent or its forceful kill was delivered; an attempt
\* in which the process was present at every check and no kill was
\* delivered never ends Terminated, whatever signals it sent
C29_TerminatedOnlyWhenAbsentOrKilled ==
    self.cmd = "unstick" =>
        \A k \in 1..Len(outcomes) :
            LET scr == outcomes[k].script
            IN  outcomes[k].outcome = "Terminated" =>
                    \/ \E i \in 1..Len(scr) : scr[i] \in {"gone", "absent"}
                    \/ /\ Len(scr) >= 2
                       /\ scr[Len(scr) - 1] = "SIGKILL"
                       /\ scr[Len(scr)] = "delivered"

\* one process was found gone after the terminate signal, the other was
\* alive then and took the forceful kill: both are Terminated
C29_Witness ==
    /\ self.cmd = "unstick" /\ unix
    /\ Len(outcomes) = 2
    /\ \E k \in 1..2 :
          /\ outcomes[k].outcome = "Terminated"
          /\ outcomes[k].script = <<"SIGCONT", "busy", "SIGINT", "busy", "SIGTERM", "gone">>
    /\ \E k \in 1..2 :
          /\ outcomes[k].outcome = "Terminated"
          /\ outcomes[k].script[Len(outcomes[k].script)] = "delivered"


\* C30 as stated: stop puts every process it handled in exactly one of the
\* lists stopped and failed, in the order of its list; a process is in
\* failed only if terminate was rejected or the process was there for the
\* forceful kill and survived it, so a process found gone when the kill is
\* attempted is never in failed
C30_ExitedIsStoppedNeverFailed ==
    self.cmd = "stop" =>
        \A k \in 1..Len(outcomes) :
            LET scr == outcomes[k].script
            IN  /\ outcomes[k].pid = processes[k].pid
                /\ outcomes[k].outcome \in {"stopped", "failed"}
                /\ outcomes[k].outcome = "failed" =>
                      /\ \A i \in 1..Len(scr) : scr[i] \notin {"gone", "absent"}
                      /\ \/ scr = <<"SIGTERM">>
                         \/ /\ Len(scr) >= 2
                            /\ scr[Len(scr) - 1] = "present"
                            /\ scr[Len(scr)] = "SIGKILL"

====
